---------------------------- MODULE Spec2Model ----------------------------
(***************************************************************************)
(* Observer-centric sky positioning engine of the UAP tracker: the         *)
(* transforms of astronomyUtils.js, planeUtils.js and satelliteUtils.js,   *)
(* and the React components (Planes, Satellites, RealStars) that apply     *)
(* them on every rendered frame.                                           *)
(*                                                                         *)
(* Numbers.  JavaScript doubles are modelled in fixed point:               *)
(*   - a trigonometric value v is the integer round(v * SCALE);            *)
(*   - an angle is an integer number of half degrees, so that Math.PI is   *)
(*     PI = 360 units and a degree is 2 units;                             *)
(*   - a length is an integer number of kilometres (the source's metres    *)
(*     are divided by 1000 where they enter a transform: the squares of   *)
(*     Earth radii in metres do not fit 32-bit integers);              *)
(*   - an hour angle quantity (RA, GMST, LST) is in millihours; the hours  *)
(*     of getLocalSiderealTime also keep the relative precision of a       *)
(*     double, scaled down to 13 bits: a result is rounded to the spacing  *)
(*     of the representable values at its magnitude (Fl), so that a small  *)
(*     term can be absorbed by a large one as it is in IEEE arithmetic;    *)
(*   - every product and quotient is rounded to nearest, as IEEE           *)
(*     arithmetic rounds, so a sum that is 1 in real arithmetic may be     *)
(*     SCALE + 1 here exactly as it may be 1.0000000000000002 there;       *)
(*   - NaN is one distinguished value that every operation propagates.     *)
(***************************************************************************)
EXTENDS Integers, Sequences, FiniteSets, TLC

(***************************************************************************)
(* Fixed-point arithmetic                                                  *)
(***************************************************************************)
SCALE == 10000

PI == 360

NaN == -1000000000

NULL == -999999999

Abs(n) == IF n < 0 THEN -n ELSE n

Max(a, b) == IF a >= b THEN a ELSE b

Min(a, b) == IF a <= b THEN a ELSE b

\* n / d rounded to nearest, halves away from zero (d > 0)
RoundDiv(n, d) ==
    IF n >= 0 THEN (n + d \div 2) \div d
              ELSE -(((-n) + d \div 2) \div d)

\* a * b of two fixed-point values; a large factor is scaled first so that
\* the intermediate product stays inside 32 bits
Mul(a, b) ==
    IF a = NaN \/ b = NaN THEN NaN
    ELSE IF Abs(a) <= 200000 /\ Abs(b) <= SCALE
         THEN RoundDiv(a * b, SCALE)
         ELSE RoundDiv(RoundDiv(a, 100) * b, SCALE \div 100)

\* a / b of two fixed-point values, b # 0
Div(a, b) ==
    IF a = NaN \/ b = NaN THEN NaN
    ELSE IF b > 0 THEN RoundDiv(a * SCALE, b)
                  ELSE -RoundDiv(a * SCALE, -b)

\* JavaScript's % : the remainder takes the sign of the dividend
JsRem(a, b) == IF a >= 0 THEN a % b ELSE -((-a) % b)

\* floor of the square root of n >= 0, by bisection
RECURSIVE SqrtIter(_, _, _)
SqrtIter(n, lo, hi) ==
    IF lo >= hi THEN lo
    ELSE LET mid == (lo + hi + 1) \div 2
         IN  IF mid * mid <= n THEN SqrtIter(n, mid, hi)
                               ELSE SqrtIter(n, lo, mid - 1)

\* Math.sqrt of a non-negative integer (a squared length)
Sqrt(n) == IF n = NaN \/ n < 0 THEN NaN ELSE SqrtIter(n, 0, 46340)

\* sin of 0, 0.5, ..., 90 degrees, times SCALE
SinTab ==
    <<
       0, 87, 175, 262, 349, 436, 523, 610, 698, 785, 872, 958,
       1045, 1132, 1219, 1305, 1392, 1478, 1564, 1650, 1736, 1822, 1908, 1994,
       2079, 2164, 2250, 2334, 2419, 2504, 2588, 2672, 2756, 2840, 2924, 3007,
       3090, 3173, 3256, 3338, 3420, 3502, 3584, 3665, 3746, 3827, 3907, 3987,
       4067, 4147, 4226, 4305, 4384, 4462, 4540, 4617, 4695, 4772, 4848, 4924,
       5000, 5075, 5150, 5225, 5299, 5373, 5446, 5519, 5592, 5664, 5736, 5807,
       5878, 5948, 6018, 6088, 6157, 6225, 6293, 6361, 6428, 6494, 6561, 6626,
       6691, 6756, 6820, 6884, 6947, 7009, 7071, 7133, 7193, 7254, 7314, 7373,
       7431, 7490, 7547, 7604, 7660, 7716, 7771, 7826, 7880, 7934, 7986, 8039,
       8090, 8141, 8192, 8241, 8290, 8339, 8387, 8434, 8480, 8526, 8572, 8616,
       8660, 8704, 8746, 8788, 8829, 8870, 8910, 8949, 8988, 9026, 9063, 9100,
       9135, 9171, 9205, 9239, 9272, 9304, 9336, 9367, 9397, 9426, 9455, 9483,
       9511, 9537, 9563, 9588, 9613, 9636, 9659, 9681, 9703, 9724, 9744, 9763,
       9781, 9799, 9816, 9833, 9848, 9863, 9877, 9890, 9903, 9914, 9925, 9936,
       9945, 9954, 9962, 9969, 9976, 9981, 9986, 9990, 9994, 9997, 9998, 10000,
       10000
    >>

\* Math.sin of an angle in half degrees
Sin(x) ==
    IF x = NaN THEN NaN
    ELSE LET m == x % (2 * PI)
         IN  IF m <= PI \div 2 THEN SinTab[m + 1]
             ELSE IF m <= PI THEN SinTab[PI - m + 1]
             ELSE IF m <= PI + PI \div 2 THEN -SinTab[m - PI + 1]
             ELSE -SinTab[2 * PI - m + 1]

\* Math.cos
Cos(x) == IF x = NaN THEN NaN ELSE Sin(x + PI \div 2)

\* Math.tan; at +-90 degrees the double is huge and finite, here TanMax
TanMax == 20000000

Tan(x) ==
    IF x = NaN THEN NaN
    ELSE IF Cos(x) = 0 THEN (IF Sin(x) > 0 THEN TanMax ELSE -TanMax)
    ELSE Div(Sin(x), Cos(x))

\* the least index k in lo..hi with SinTab[k + 1] >= v (the table ascends)
RECURSIVE FirstAtLeast(_, _, _)
FirstAtLeast(v, lo, hi) ==
    IF lo >= hi THEN lo
    ELSE LET mid == (lo + hi) \div 2
         IN  IF SinTab[mid + 1] >= v THEN FirstAtLeast(v, lo, mid)
                                     ELSE FirstAtLeast(v, mid + 1, hi)

\* of the table indices k - 1 and k, the one whose sine is nearer w
\* (0 <= w <= SCALE, k the least index with SinTab[k + 1] >= w)
NearestIndex(w, k) ==
    IF w = SCALE THEN PI \div 2
    ELSE IF k > 0 /\ w - SinTab[k] < SinTab[k + 1] - w THEN k - 1
    ELSE k

\* Math.asin: NaN outside [-1, 1], else the nearest angle in [-PI/2, PI/2]
Asin(v) ==
    IF v = NaN \/ v > SCALE \/ v < -SCALE THEN NaN
    ELSE IF v < 0 THEN -NearestIndex(-v, FirstAtLeast(-v, 0, PI \div 2))
    ELSE NearestIndex(v, FirstAtLeast(v, 0, PI \div 2))

\* the least angle a in lo..hi at which the direction (xs, ys) is not to the
\* left of the direction of a: ys*cos(a) - xs*sin(a) <= 0
RECURSIVE FirstNotLeft(_, _, _, _)
FirstNotLeft(ys, xs, lo, hi) ==
    IF lo >= hi THEN lo
    ELSE LET mid == (lo + hi) \div 2
         IN  IF ys * Cos(mid) - xs * Sin(mid) <= 0
             THEN FirstNotLeft(ys, xs, lo, mid)
             ELSE FirstNotLeft(ys, xs, mid + 1, hi)

\* how far the direction of the angle a is from the direction (xs, ys)
Err(ys, xs, a) == Abs(ys * Cos(a) - xs * Sin(a))

\* of the angles a1 - 1 and a1, the one nearer the direction (xs, ys)
NearestAngle(ys, xs, a1) ==
    IF a1 > 0 /\ Err(ys, xs, a1 - 1) < Err(ys, xs, a1) THEN a1 - 1 ELSE a1

\* the angle in [0, PI/2] nearest the direction (x, y), x >= 0, y >= 0, not
\* both 0; large arguments are scaled down together first
QuadrantAngle(y, x) ==
    LET k  == Max(x, y) \div 100000 + 1
        ys == y \div k
        xs == x \div k
    IN  NearestAngle(ys, xs, FirstNotLeft(ys, xs, 0, PI \div 2))

\* the angle a of the first quadrant, reflected into the quadrant of (x, y)
InQuadrant(y, x, a) ==
    IF x >= 0 THEN (IF y >= 0 THEN a ELSE -a)
    ELSE IF y >= 0 THEN PI - a
    ELSE -(PI - a)

\* Math.atan2(y, x), in [-PI, PI]; PI when y is +0 and x < 0
Atan2(y, x) ==
    IF y = NaN \/ x = NaN THEN NaN
    ELSE IF x = 0 /\ y = 0 THEN 0
    ELSE InQuadrant(y, x, QuadrantAngle(Abs(y), Abs(x)))

\* Math.PI as a number (times SCALE), where an angle multiplies a length
PiNumber == 31416

\* null where an object is expected (a function's "return null")
Null == [null |-> TRUE]

\* degrees * (Math.PI / 180): an angle in half degrees
DegToRad(deg) == (deg * PI) \div 180

\* the boolean value of a JavaScript number or null: null, 0 and NaN are falsy
Truthy(v) == v # NULL /\ v # 0 /\ v # NaN

\* v || 0
OrZero(v) == IF Truthy(v) THEN v ELSE 0

\* a < b on doubles: false when either side is NaN
Lt(a, b) == a # NaN /\ b # NaN /\ a < b

(***************************************************************************)
(* astronomyUtils.js                                                       *)
(***************************************************************************)
\* Date.UTC(2000, 0, 1, 12, 0, 0) / 1000: the J2000.0 epoch in Unix seconds
J2000 == 946728000

\* 18.697374558 hours, in millihours
Gmst0 == 18697

\* 24.06570982441908 hours per day = 0.2785 millihours per second, times SCALE
GmstRate == 2785

\* 24 hours, in millihours
Day == 24000

\* the spacing of the representable hours at the magnitude of x millihours:
\* 1 below 8 hours, doubling with every doubling of the magnitude
Spacing(x) ==
    IF Abs(x) < 8000 THEN 1
    ELSE IF Abs(x) < 16000 THEN 2
    ELSE IF Abs(x) < 32000 THEN 4
    ELSE 8

\* x >= 0 rounded to the nearest multiple of q, a tie to the even multiple
RoundEven(x, q) ==
    IF 2 * (x % q) < q THEN x - (x % q)
    ELSE IF 2 * (x % q) > q THEN x - (x % q) + q
    ELSE IF (x \div q) % 2 = 0 THEN x - (x % q)
    ELSE x - (x % q) + q

\* the representable value nearest x: the rounding of an IEEE result
Fl(x) == IF x < 0 THEN -RoundEven(-x, Spacing(x)) ELSE RoundEven(x, Spacing(x))

\* lstNorm < 0 ? lstNorm + 24 : lstNorm
AddDayIfNegative(h) == IF h < 0 THEN Fl(h + Day) ELSE h

\* x % 24, then 24 added to a negative remainder
NormalizeHours(x) == AddDayIfNegative(JsRem(x, Day))

\* getLocalSiderealTime(lon, date): lon in millidegrees, date in Unix
\* seconds; the local sidereal time in millihours
getLocalSiderealTime(lon, date) ==
    LET gmst      == Fl(Fl(Gmst0) + Fl(RoundDiv(GmstRate * (date - J2000), SCALE)))
        gmstFinal == NormalizeHours(gmst)
        lst       == Fl(gmstFinal + Fl(RoundDiv(lon, 15)))
    IN  NormalizeHours(lst)

\* hours * 15 * (Math.PI / 180), hours given in millihours
HoursToRad(h) == RoundDiv(h * 15 * PI, 180 * 1000)

\* Faulty variant of celestialToHorizontal: the factor cos(Dec) of the second
\* term of sin(Alt) is missing
celestialToHorizontalNoCosDec(ra, dec, lat, lst) ==
    LET decRad == DegToRad(dec)
        latRad == DegToRad(lat)
        haRad  == HoursToRad(lst) - HoursToRad(ra)
    IN  [azimuth   |-> Atan2(Sin(haRad),
                             Mul(Cos(haRad), Sin(latRad))
                             - Mul(Tan(decRad), Cos(latRad))) + PI,
         elevation |-> Asin(Mul(Sin(decRad), Sin(latRad))
                            + Mul(Cos(latRad), Cos(haRad)))]

\* celestialToHorizontal(ra, dec, lat, lst): ra, lst in millihours, dec, lat in
\* degrees
celestialToHorizontal(ra, dec, lat, lst) ==
    LET raRad  == HoursToRad(ra)
        decRad == DegToRad(dec)
        latRad == DegToRad(lat)
        lstRad == HoursToRad(lst)
        haRad  == lstRad - raRad
        sinAlt == Mul(Sin(decRad), Sin(latRad))
                  + Mul(Mul(Cos(decRad), Cos(latRad)), Cos(haRad))
        altRad == Asin(sinAlt)
        azFromSouth == Atan2(Sin(haRad),
                             Mul(Cos(haRad), Sin(latRad))
                             - Mul(Tan(decRad), Cos(latRad)))
        az     == azFromSouth + PI
    IN  [azimuth |-> az, elevation |-> altRad]

\* a plain number as a fixed-point value
ToFixed(n) == n * SCALE

\* the point at the given look angles on the sphere of the given radius
\* (x east, y up, z south), as lines 84-88 compute it
HorizontalToCartesian(azimuth, elevation, radius) ==
    [x |-> Mul(Mul(ToFixed(radius), Cos(elevation)), Sin(azimuth)),
     y |-> Mul(ToFixed(radius), Sin(elevation)),
     z |-> Mul(Mul(ToFixed(-radius), Cos(elevation)), Cos(azimuth))]

\* { azimuth, elevation } = h, then the Cartesian point
Destructure(h, radius) == HorizontalToCartesian(h.azimuth, h.elevation, radius)

\* degrees as millidegrees
MilliDegrees(deg) == deg * 1000

\* celestialToCartesian(ra, dec, lat, lon, date, radius); lon in degrees
celestialToCartesian(ra, dec, lat, lon, date, radius) ==
    Destructure(celestialToHorizontal(ra, dec, lat,
                                      getLocalSiderealTime(MilliDegrees(lon), date)),
                radius)

\* A vector of three lengths
Vec(x, y, z) == [x |-> x, y |-> y, z |-> z]

\* a.x * b.x + a.y * b.y + a.z * b.z
Dot(a, b) == a.x * b.x + a.y * b.y + a.z * b.z

\* 357.529 and 280.459 degrees, the Sun's mean anomaly and mean longitude at
\* J2000, in half degrees
SunAnomaly0 == 715

SunLongitude0 == 561

\* 0.98560028 and 0.98564736 degrees per day, in half degrees times SCALE
SunAnomalyRate == 19712

SunLongitudeRate == 19713

\* 23.439 degrees, the obliquity of the ecliptic, in half degrees (its drift
\* of 0.00000036 degrees a day is far below the half degree)
Obliquity == 47

\* one astronomical unit, 149597870.7 km, in units of 10000 km
AU == 14960

\* seconds in a day (86400000 ms)
DaySeconds == 86400

\* an angle that grows by rate (half degrees times SCALE per day) from a0,
\* at the instant date
MeanAngle(a0, rate, date) ==
    a0 + RoundDiv(rate * (date - J2000), DaySeconds * SCALE)

\* L = q + 1.915 * sin(g) + 0.020 * sin(2 * g), in half degrees
EclipticLongitude(q, g) ==
    q + RoundDiv(383 * Sin(g), 100 * SCALE) + RoundDiv(4 * Sin(2 * g), 100 * SCALE)

\* R = 1.00014 - 0.01671 * cos(g) - 0.00014 * cos(2 * g) astronomical units,
\* as a length in units of 10000 km
SunDistance(g) ==
    RoundDiv((10001 - Mul(167, Cos(g)) - Mul(1, Cos(2 * g))) * AU, SCALE)

\* the Sun at distance R_km and ecliptic longitude LRad, turned from the
\* ecliptic to the equator by the obliquity eRad
SunEquatorial(R_km, LRad, eRad) ==
    Vec(Mul(R_km, Cos(LRad)),
        Mul(Mul(R_km, Sin(LRad)), Cos(eRad)),
        Mul(Mul(R_km, Sin(LRad)), Sin(eRad)))

\* the Sun's position, given the mean anomaly g and the mean longitude q
SunOf(g, q) == SunEquatorial(SunDistance(g), EclipticLongitude(q, g), Obliquity)

\* getSunPositionECI(date): the Sun's position in the Earth-centred inertial
\* frame, in units of 10000 km; date in Unix seconds
getSunPositionECI(date) ==
    SunOf(MeanAngle(SunAnomaly0, SunAnomalyRate, date),
          MeanAngle(SunLongitude0, SunLongitudeRate, date))

\* const Re = 6371, the radius of the shadow cylinder (km)
Re == 6371

\* L = dot / sunDist, to the kilometre; 0 / 0 is NaN
ProjectionLength(dot, sunDist) ==
    IF sunDist = NaN THEN NaN
    ELSE IF sunDist = 0 THEN NaN
    ELSE RoundDiv(dot, sunDist)

\* distFromAxisSq = satDistSq - L * L
DistFromAxisSq(satPos, L) == IF L = NaN THEN NaN ELSE Dot(satPos, satPos) - L * L

\* lines 274-295 of isSunlit, given the projection length L
LitAt(satPos, L) ==
    IF L # NaN /\ L >= 0 THEN TRUE
    ELSE IF Lt(DistFromAxisSq(satPos, L), Re * Re) THEN FALSE
    ELSE TRUE

\* Faulty variant of isSunlit: everything behind the plane through the
\* Earth's centre is taken to be in shadow
isSunlitDaySideOnly(satPos, sunPos) ==
    ~Lt(ProjectionLength(Dot(satPos, sunPos), Sqrt(Dot(sunPos, sunPos))), 0)

\* isSunlit(satPos, sunPos): satPos in km, sunPos in any one unit
isSunlit(satPos, sunPos) ==
    LitAt(satPos, ProjectionLength(Dot(satPos, sunPos), Sqrt(Dot(sunPos, sunPos))))

(***************************************************************************)
(* satelliteUtils.js                                                       *)
(***************************************************************************)
\* Faulty variant of polarToCartesian: North is on +Z
polarToCartesianNorthOnPlusZ(azimuth, elevation, distance) ==
    <<Mul(Mul(ToFixed(distance), Cos(elevation)), Sin(azimuth)),
      Mul(ToFixed(distance), Sin(elevation)),
      Mul(Mul(ToFixed(distance), Cos(elevation)), Cos(azimuth))>>

\* polarToCartesian(azimuth, elevation, distance)
polarToCartesian(azimuth, elevation, distance) ==
    LET x == Mul(Mul(ToFixed(distance), Cos(elevation)), Sin(azimuth))
        y == Mul(ToFixed(distance), Sin(elevation))
        z == Mul(Mul(ToFixed(-distance), Cos(elevation)), Cos(azimuth))
    IN  <<x, y, z>>

\* the point of a circular orbit of radius a at argument of latitude u, in
\* the plane of inclination i and node o
InPlane(p, q, o, z) ==
    [x |-> Mul(p, Cos(o)) - Mul(q, Sin(o)),
     y |-> Mul(p, Sin(o)) + Mul(q, Cos(o)),
     z |-> z]

OrbitPoint(a, u, i, o) ==
    InPlane(Mul(a, Cos(u)), Mul(Mul(a, Sin(u)), Cos(i)), o,
            Mul(Mul(a, Sin(u)), Sin(i)))

\* { azimuth, elevation, range: lookAngles.rangeSat }
RenameRange(lookAngles) ==
    [azimuth   |-> lookAngles.azimuth,
     elevation |-> lookAngles.elevation,
     range     |-> lookAngles.rangeSat]

\* The propagator of satellite.js, outside this repository.  An element set
\* (satrec) is modelled by a circular orbit [a, inc, raan, u0, n, decay]: radius in
\* kilometres, inclination, node and argument of latitude at J2000 in degrees, mean
\* motion in degrees per hour, and the instant from which SGP4 reports an
\* error (no position).
propagate(satrec, date) ==
    IF date >= satrec.decay THEN [position |-> Null]
    ELSE [position |->
            OrbitPoint(satrec.a,
                       DegToRad(satrec.u0 + RoundDiv(satrec.n * (date - J2000), 3600)),
                       DegToRad(satrec.inc), DegToRad(satrec.raan))]

\* gstime(date) of satellite.js: Greenwich sidereal time as an angle
gstime(date) ==
    LET gmst == JsRem(Gmst0 + RoundDiv(GmstRate * (date - J2000), SCALE), Day)
    IN  HoursToRad(IF gmst < 0 THEN gmst + Day ELSE gmst)

\* eciToEcf(eci, gmst) of satellite.js: rotation about the polar axis
eciToEcf(eci, gmst) ==
    [x |-> Mul(eci.x, Cos(gmst)) + Mul(eci.y, Sin(gmst)),
     y |-> Mul(eci.y, Cos(gmst)) - Mul(eci.x, Sin(gmst)),
     z |-> eci.z]

\* the look angles of the topocentric vector (south, east, zenith) of length
\* rangeSat
TopocentricToLookAngles(topS, topE, topZ, rangeSat) ==
    [azimuth   |-> Atan2(-topE, topS) + PI,
     elevation |-> IF rangeSat = 0 THEN NaN
                   ELSE Asin(Max(-SCALE, Min(SCALE,
                            RoundDiv(topZ * SCALE, rangeSat)))),
     rangeSat  |-> rangeSat]

\* the topocentric vector and its length
Topocentric(topS, topE, topZ) ==
    TopocentricToLookAngles(topS, topE, topZ,
                            Sqrt(topS * topS + topE * topE + topZ * topZ))

\* the range vector (rx, ry, rz) turned into the observer's horizon frame
RangeToLookAngles(lat, lon, rx, ry, rz) ==
    Topocentric(Mul(Mul(Sin(lat), Cos(lon)), rx) + Mul(Mul(Sin(lat), Sin(lon)), ry)
                    - Mul(Cos(lat), rz),
                Mul(Cos(lon), ry) - Mul(Sin(lon), rx),
                Mul(Mul(Cos(lat), Cos(lon)), rx) + Mul(Mul(Cos(lat), Sin(lon)), ry)
                    + Mul(Sin(lat), rz))

\* ecfToLookAngles(observerGd, ecf) of satellite.js, on a spherical Earth
ecfToLookAngles(observerGd, ecf) ==
    LET lat == observerGd.latitude
        lon == observerGd.longitude
        ro  == 6371 + observerGd.height
    IN  RangeToLookAngles(lat, lon,
                          ecf.x - Mul(Mul(ro, Cos(lat)), Cos(lon)),
                          ecf.y - Mul(Mul(ro, Cos(lat)), Sin(lon)),
                          ecf.z - Mul(ro, Sin(lat)))

\* lines 70-85 of getSatPositionRelative, for a position that exists
LookAnglesOf(positionEci, date, observerLat, observerLon, observerAlt) ==
    LET gmst == gstime(date)
        observerGd == [latitude  |-> DegToRad(observerLat),
                       longitude |-> DegToRad(observerLon),
                       height    |-> observerAlt]
        positionEcf == eciToEcf(positionEci, gmst)
    IN  RenameRange(ecfToLookAngles(observerGd, positionEcf))

\* Faulty variant of getSatPositionRelative: the guard on a failed
\* propagation is gone and the missing position is read as the zero vector
getSatPositionRelativeUnguarded(satrec, date, observerLat, observerLon, observerAlt) ==
    IF propagate(satrec, date).position = Null
    THEN LookAnglesOf([x |-> 0, y |-> 0, z |-> 0], date, observerLat, observerLon,
                      observerAlt)
    ELSE LookAnglesOf(propagate(satrec, date).position, date, observerLat,
                      observerLon, observerAlt)

\* getSatPositionRelative(satrec, date, observerLat, observerLon, observerAlt)
getSatPositionRelative(satrec, date, observerLat, observerLon, observerAlt) ==
    LET positionAndVelocity == propagate(satrec, date)
        positionEci == positionAndVelocity.position
    IN  IF positionEci = Null THEN Null
        ELSE LookAnglesOf(positionEci, date, observerLat, observerLon, observerAlt)

\* Which revision of a file that the repository holds in several revisions
\* is the one in the build: planeUtils.js ("flat": src/utils/planeUtils.js,
\* "raw": its revision with the Earth-centre triangle, "curved": the
\* revision that also normalizes the bearing) and RealStars.jsx
\* ("unfiltered": the component maps the catalogue, "filtered": it also
\* drops the stars below the horizon)
VARIABLES planeUtilsRev, realStarsRev

(***************************************************************************)
(* planeUtils.js                                                           *)
(*                                                                         *)
(* An aircraft state vector is the record                                  *)
(*   [id (index 0), callsign (1), timePos (3), lon (5), lat (6), alt (7),  *)
(*    velocity (9), heading (10), verticalRate (11)]                       *)
(* with lat, lon, heading in degrees, alt in metres, timePos in Unix       *)
(* seconds, velocity and verticalRate in m/s; NULL is JavaScript's null.   *)
(***************************************************************************)
\* const R = 6371e3 metres, here in kilometres
R == 6371

\* ToNumber(v) in arithmetic: null is 0
Num(v) == IF v = NULL THEN 0 ELSE v

\* metres as kilometres
Km(m) == RoundDiv(Num(m), 1000)

\* R * c, the arc of the angle c on a sphere of radius r (kilometres)
ArcLength(r, c) == RoundDiv(RoundDiv(r * PiNumber, PI) * c, SCALE)

\* surfaceDist / R, the angle of an arc of length d on a sphere of radius r
ArcAngle(d, r) == RoundDiv(d * SCALE, RoundDiv(r * PiNumber, PI))

\* Math.sqrt of a fixed-point value
SqrtFixed(v) == Sqrt(v * SCALE)

\* c = 2 * atan2(sqrt(a), sqrt(1 - a)), then R * c
HaversineDist(a) == ArcLength(R, 2 * Atan2(SqrtFixed(a), SqrtFixed(SCALE - a)))

\* the haversine surface distance (kilometres) from the observer to the
\* point (pLat, pLon); all in degrees
SurfaceDist(pLat, pLon, observerLat, observerLon) ==
    LET dLat == DegToRad(pLat - observerLat)
        dLon == DegToRad(pLon - observerLon)
        lat1 == DegToRad(observerLat)
        lat2 == DegToRad(pLat)
    IN  HaversineDist(Mul(Sin(dLat \div 2), Sin(dLat \div 2))
                      + Mul(Mul(Mul(Sin(dLon \div 2), Sin(dLon \div 2)), Cos(lat1)),
                            Cos(lat2)))

\* the initial bearing Math.atan2(y, x) from the observer to (pLat, pLon)
Bearing(pLat, pLon, observerLat, observerLon) ==
    LET dLon == DegToRad(pLon - observerLon)
        lat1 == DegToRad(observerLat)
        lat2 == DegToRad(pLat)
        y    == Mul(Sin(dLon), Cos(lat2))
        x    == Mul(Cos(lat1), Sin(lat2))
                - Mul(Mul(Sin(lat1), Cos(lat2)), Cos(dLon))
    IN  Atan2(y, x)

\* planeState[1]?.trim()
Callsign(planeState) == planeState.callsign

\* the elevation of src/utils/planeUtils.js: the flat triangle less the
\* curvature drop
FlatElevation(altDiff, surfaceDist) ==
    Atan2(altDiff - RoundDiv(surfaceDist * surfaceDist, 2 * R), surfaceDist)

\* the object getPlanePositionRelative returns
LookAngles(az, el, surfaceDist, planeState) ==
    [azimuth |-> az, elevation |-> el, range |-> surfaceDist,
     callsign |-> Callsign(planeState)]

\* lines 52-92 of src/utils/planeUtils.js, for a position that is not null
FlatLookAngles(planeState, pLat, pLon, observerLat, observerLon, observerAlt, surfaceDist) ==
    LookAngles(Bearing(pLat, pLon, observerLat, observerLon),
               FlatElevation(Km(planeState.alt) - Km(observerAlt), surfaceDist),
               surfaceDist, planeState)

\* Faulty variant of getPlanePositionRelative: the null guard is gone and a
\* null coordinate enters the arithmetic as 0
getPlanePositionRelativeUnguarded(planeState, observerLat, observerLon, observerAlt) ==
    LET pLon == Num(planeState.lon)
        pLat == Num(planeState.lat)
    IN  FlatLookAngles(planeState, pLat, pLon, observerLat, observerLon, observerAlt,
                       SurfaceDist(pLat, pLon, observerLat, observerLon))

\* getPlanePositionRelative as src/utils/planeUtils.js has it: the bearing is
\* returned as atan2 gives it, the elevation is the flat triangle less the
\* curvature drop
getPlanePositionRelativeFlat(planeState, observerLat, observerLon, observerAlt) ==
    LET pLon == planeState.lon
        pLat == planeState.lat
    IN  IF pLon = NULL \/ pLat = NULL THEN Null
        ELSE FlatLookAngles(planeState, pLat, pLon, observerLat, observerLon,
                            observerAlt,
                            SurfaceDist(pLat, pLon, observerLat, observerLon))

\* az normalized to [0, 2 * PI): if (az < 0) az += 2 * Math.PI
Normalize(az) == IF az < 0 THEN az + 2 * PI ELSE az

\* the slant range s of the triangle Earth centre - observer - target
SlantRange(r_o, r_t, theta) ==
    Sqrt(r_o * r_o + r_t * r_t - 2 * r_o * Mul(r_t, Cos(theta)))

\* Faulty variant of the elevation of the revised planeUtils.js: a target at
\* zero slant range is put at the zenith
ZenithElevation(r_o, r_t, theta, s) ==
    IF s = 0 THEN PI \div 2
    ELSE Asin(Max(-SCALE, Min(SCALE,
                  RoundDiv((Mul(r_t, Cos(theta)) - r_o) * SCALE, s))))

\* Faulty variant of the elevation of the revised planeUtils.js: the test of
\* s is gone, and at s = 0 the quotient 0 / 0 is NaN, which Math.min,
\* Math.max and Math.asin hand on
UnguardedElevation(r_o, r_t, theta, s) ==
    IF s = 0 THEN NaN
    ELSE Asin(Max(-SCALE, Min(SCALE,
                  RoundDiv((Mul(r_t, Cos(theta)) - r_o) * SCALE, s))))

\* the elevation of the revised planeUtils.js, given the slant range
CurvedElevation(r_o, r_t, theta, s) ==
    IF s = 0 THEN 0
    ELSE Asin(Max(-SCALE, Min(SCALE,
                  RoundDiv((Mul(r_t, Cos(theta)) - r_o) * SCALE, s))))

\* Faulty variant of the curved look angles: the slant range is returned as
\* the range
CurvedLookAnglesSlant(planeState, pLat, pLon, observerLat, observerLon, observerAlt, surfaceDist) ==
    LET r_o   == R + Km(observerAlt)
        r_t   == R + Km(planeState.alt)
        theta == ArcAngle(surfaceDist, R)
    IN  LookAngles(Normalize(Bearing(pLat, pLon, observerLat, observerLon)),
                   CurvedElevation(r_o, r_t, theta, SlantRange(r_o, r_t, theta)),
                   SlantRange(r_o, r_t, theta), planeState)

\* lines 52-109 of the revised planeUtils.js, for a position that is not null
CurvedLookAngles(planeState, pLat, pLon, observerLat, observerLon, observerAlt, surfaceDist) ==
    LET r_o   == R + Km(observerAlt)
        r_t   == R + Km(planeState.alt)
        theta == ArcAngle(surfaceDist, R)
    IN  LookAngles(Normalize(Bearing(pLat, pLon, observerLat, observerLon)),
                   CurvedElevation(r_o, r_t, theta, SlantRange(r_o, r_t, theta)),
                   surfaceDist, planeState)

\* getPlanePositionRelative as the revised planeUtils.js has it: the bearing
\* is normalized, the elevation is taken in the triangle Earth centre -
\* observer - target
getPlanePositionRelativeCurved(planeState, observerLat, observerLon, observerAlt) ==
    LET pLon == planeState.lon
        pLat == planeState.lat
    IN  IF pLon = NULL \/ pLat = NULL THEN Null
        ELSE CurvedLookAngles(planeState, pLat, pLon, observerLat, observerLon,
                              observerAlt,
                              SurfaceDist(pLat, pLon, observerLat, observerLon))

\* lines 193-249 of the first revision with the Earth-centre triangle: the
\* bearing is still returned as atan2 gives it
RawCurvedLookAngles(planeState, pLat, pLon, observerLat, observerLon, observerAlt, surfaceDist) ==
    LET r_o   == R + Km(observerAlt)
        r_t   == R + Km(planeState.alt)
        theta == ArcAngle(surfaceDist, R)
    IN  LookAngles(Bearing(pLat, pLon, observerLat, observerLon),
                   CurvedElevation(r_o, r_t, theta, SlantRange(r_o, r_t, theta)),
                   surfaceDist, planeState)

\* getPlanePositionRelative as that revision has it
getPlanePositionRelativeRaw(planeState, observerLat, observerLon, observerAlt) ==
    LET pLon == planeState.lon
        pLat == planeState.lat
    IN  IF pLon = NULL \/ pLat = NULL THEN Null
        ELSE RawCurvedLookAngles(planeState, pLat, pLon, observerLat, observerLon,
                                 observerAlt,
                                 SurfaceDist(pLat, pLon, observerLat, observerLon))

\* getPlanePositionRelative of the build
getPlanePositionRelative(planeState, observerLat, observerLon, observerAlt) ==
    IF planeUtilsRev = "curved"
    THEN getPlanePositionRelativeCurved(planeState, observerLat, observerLon,
                                        observerAlt)
    ELSE IF planeUtilsRev = "raw"
    THEN getPlanePositionRelativeRaw(planeState, observerLat, observerLon,
                                     observerAlt)
    ELSE getPlanePositionRelativeFlat(planeState, observerLat, observerLon,
                                      observerAlt)

(***************************************************************************)
(* Inputs: the clock, the aircraft feed, the element sets, the catalogue   *)
(***************************************************************************)
\* seconds between two instants at which the clock is observed
TickSeconds == 3600

\* number of clock advances explored
MaxTicks == 2

\* the first instant, in Unix seconds
T0 == J2000 - TickSeconds

\* an OpenSky state vector
StateVector(id, callsign, timePos, lon, lat, alt, velocity, heading, verticalRate) ==
    [id |-> id, callsign |-> callsign, timePos |-> timePos, lon |-> lon,
     lat |-> lat, alt |-> alt, velocity |-> velocity, heading |-> heading,
     verticalRate |-> verticalRate]

\* one degree north of New York at cruise level, flying south
PlaneNorth == StateVector("a1", "UAL1", T0, -74, 42, 10000, 250, 180, 0)

\* a state vector without a position fix
PlaneNoFix == StateVector("a2", "", T0, NULL, NULL, NULL, NULL, NULL, NULL)

\* far beyond the horizon of New York
PlaneFar == StateVector("a3", "DAL3", T0, -74, 47, 10000, 0, 0, 0)

\* parked at the default observer position, never timestamped
PlaneGround == StateVector("a4", "", NULL, -74, 41, 0, 0, NULL, 0)

\* west of New York, stamped by a server clock ahead of the local clock
PlaneWest ==
    StateVector("a5", "SWA5", T0 + 2 * TickSeconds, -75, 41, 12000, 250, 270, 5)

\* what fetchPlanes may resolve to ([] also on a failed request)
PlaneFeeds ==
    { <<>>,
      <<PlaneNorth>>,
      <<PlaneNoFix, PlaneNorth, PlaneWest>>,
      <<PlaneGround, PlaneFar>> }

(***************************************************************************)
(* planeUtils.js: fetchPlanes                                              *)
(*                                                                         *)
(* What axios.get settles with is the record                               *)
(*   [kind |-> "response", body |-> b, states |-> list]  (a 2xx answer), b *)
(*     "states" (data.states is the list), "nullStates", "noStates" (data  *)
(*     has no such field) or "nullData" (data itself is null), or          *)
(*   [kind |-> "error", why |-> w], the rejections of axios: "network",    *)
(*     "timeout" (no answer within the timeout), "status" (a non-2xx       *)
(*     answer, as the proxy gives when the upstream fails).                *)
(***************************************************************************)
\* timeout: 5000 (ms)
FetchTimeout == 5000

\* the ways the request of fetchPlanes can fail
Failures == {"network", "timeout", "status"}

\* the request ends in the catch block: axios rejected, or reading
\* response.data.states of a null body threw
Caught(outcome) == outcome.kind = "error" \/ outcome.body = "nullData"

\* response.data.states || []
StatesOrEmpty(outcome) == IF outcome.body = "states" THEN outcome.states ELSE <<>>

\* the names generateMockPlanes gives its five aircraft
MockIds == <<"mock0", "mock1", "mock2", "mock3", "mock4">>

MockCallsigns == <<"FLIGHT0", "FLIGHT1", "FLIGHT2", "FLIGHT3", "FLIGHT4">>

\* generateMockPlanes: five aircraft inside the bounding box; Math.random()
\* is random / 4, one draw standing for the four of an aircraft; the fields
\* the function leaves out are undefined (here NULL)
generateMockPlanes(minLat, minLon, maxLat, maxLon, random) ==
    [i \in 1..5 |->
        StateVector(MockIds[i], MockCallsigns[i], NULL,
                    minLon + (random[i] * (maxLon - minLon)) \div 4,
                    minLat + (random[i] * (maxLat - minLat)) \div 4,
                    8000 + random[i] * 1000, NULL, random[i] * 90, NULL)]

\* an async function that returned value
Resolved(value) == [settled |-> "resolved", value |-> value]

\* fetchPlanes of src/utils/planeUtils.js and of the later revisions
fetchPlanesEmpty(outcome) ==
    IF Caught(outcome) THEN Resolved(<<>>) ELSE Resolved(StatesOrEmpty(outcome))

\* fetchPlanes of the revision that falls back to simulated aircraft
fetchPlanesMock(outcome, minLat, minLon, maxLat, maxLon, random) ==
    IF Caught(outcome)
    THEN Resolved(generateMockPlanes(minLat, minLon, maxLat, maxLon, random))
    ELSE Resolved(StatesOrEmpty(outcome))

\* fetchPlanes(minLat, minLon, maxLat, maxLon) of the revision rev, given
\* what the request settles with and the draws of Math.random
fetchPlanes(rev, outcome, minLat, minLon, maxLat, maxLon, random) ==
    IF rev = "mock"
    THEN fetchPlanesMock(outcome, minLat, minLon, maxLat, maxLon, random)
    ELSE fetchPlanesEmpty(outcome)

(***************************************************************************)
(* satelliteUtils.js: fetchTLEs                                            *)
(*                                                                         *)
(* A text is the sequence of its characters, a line likewise.              *)
(***************************************************************************)
\* the characters String.prototype.trim removes
Whitespace == {" ", "\t", "\r", "\n"}

\* trimStart and trimEnd
RECURSIVE TrimStart(_)
TrimStart(text) ==
    IF text # <<>> /\ Head(text) \in Whitespace THEN TrimStart(Tail(text)) ELSE text

RECURSIVE TrimEnd(_)
TrimEnd(text) ==
    IF text # <<>> /\ text[Len(text)] \in Whitespace
    THEN TrimEnd(SubSeq(text, 1, Len(text) - 1))
    ELSE text

\* String.prototype.trim
Trim(text) == TrimEnd(TrimStart(text))

\* String.prototype.startsWith
StartsWith(text, prefix) ==
    Len(text) >= Len(prefix) /\ SubSeq(text, 1, Len(prefix)) = prefix

\* data.split('\n'): the lines of a text, [""] for the empty text
RECURSIVE Split(_)
Split(text) ==
    IF text = <<>> THEN << <<>> >>
    ELSE LET rest == Split(Tail(text))
         IN  IF Head(text) = "\n"
             THEN << <<>> >> \o rest
             ELSE << <<Head(text)>> \o rest[1] >> \o Tail(rest)

\* lines[i], 0-based, as a condition: false beyond the end (undefined) and
\* for the empty string
LineTruthy(lines, i) == i + 1 <= Len(lines) /\ lines[i + 1] # <<>>

\* twoline2satrec(line1, line2) of satellite.js: an opaque element set
twoline2satrec(line1, line2) == [tle1 |-> line1, tle2 |-> line2]

\* the body of the loop for one i: the record pushed, if any
TLEGroup(lines, i) ==
    IF LineTruthy(lines, i) /\ LineTruthy(lines, i + 1) /\ LineTruthy(lines, i + 2)
    THEN LET name  == Trim(lines[i + 1])
             line1 == Trim(lines[i + 2])
             line2 == Trim(lines[i + 3])
         IN  IF StartsWith(line1, <<"1", " ">>) /\ StartsWith(line2, <<"2", " ">>)
             THEN << [name |-> name, line1 |-> line1, line2 |-> line2,
                      satrec |-> twoline2satrec(line1, line2)] >>
             ELSE <<>>
    ELSE <<>>

\* for (let i = ...; i < lines.length; i += step)
RECURSIVE TLEGroupsFrom(_, _, _)
TLEGroupsFrom(lines, i, step) ==
    IF i < Len(lines)
    THEN TLEGroup(lines, i) \o TLEGroupsFrom(lines, i + step, step)
    ELSE <<>>

\* Faulty variant of the loop: the window slides by one line
TLEGroupsSliding(lines) == TLEGroupsFrom(lines, 0, 1)

\* the loop of fetchTLEs over the lines of the text
TLEGroups(lines) == TLEGroupsFrom(lines, 0, 3)

\* fetchTLEs: the request fails, or answers with something that is not a
\* text (data.split throws), or with a text
fetchTLEs(outcome) ==
    IF outcome.kind = "error" \/ outcome.body # "text"
    THEN <<>>
    ELSE TLEGroups(Split(outcome.data))

\* the element set twoline2satrec returns
Satrec(a, inc, raan, u0, n, decay) ==
    [a |-> a, inc |-> inc, raan |-> raan, u0 |-> u0, n |-> n, decay |-> decay]

\* passes over New York at J2000
SatOverhead ==
    [name |-> "ISS", satrec |-> Satrec(6800, 90, 206, 41, 360, J2000 + 100 * TickSeconds)]

\* the same orbit, but SGP4 fails from J2000 on (decayed)
SatDecayed ==
    [name |-> "DEB", satrec |-> Satrec(6800, 90, 206, 41, 360, J2000)]

\* on the far side of the Earth
SatFarSide ==
    [name |-> "FAR", satrec |-> Satrec(6800, 90, 206, 221, 360, J2000 + 100 * TickSeconds)]

\* west of New York an hour before J2000, in the Earth's shadow
SatEclipsed ==
    [name |-> "ECL", satrec |-> Satrec(6800, 90, 180, 41, 360, J2000 + 100 * TickSeconds)]

\* what fetchTLEs may resolve to ([] also on a failed request)
SatFeeds == { <<>>, <<SatDecayed, SatOverhead, SatFarSide>>,
              <<SatOverhead, SatEclipsed>> }

\* data/stars.json: name, right ascension (millihours), declination (degrees)
StarData ==
    << [name |-> "Polaris",  ra |-> 2530,  dec |-> 89],
       [name |-> "Sirius",   ra |-> 6752,  dec |-> -17],
       [name |-> "Arcturus", ra |-> 14261, dec |-> 19],
       [name |-> "Canopus",  ra |-> 6399,  dec |-> -53] >>

\* positions the geolocation watch may report: New York (the default) and
\* a point on the equator
Observers == { [lat |-> 41, lon |-> -74], [lat |-> 0, lon |-> -74] }

\* p !== null
NotNull(p) == p # Null

(***************************************************************************)
(* RealStars.jsx                                                           *)
(***************************************************************************)
\* {...star, position: [pos.x, pos.y, pos.z]}
StarMarker(star, pos) ==
    [name |-> star.name, ra |-> star.ra, dec |-> star.dec,
     position |-> <<pos.x, pos.y, pos.z>>]

\* starData.map(star => ({...star, position: [pos.x, pos.y, pos.z]}))
RealStarsUnfiltered(observerLat, observerLon, now) ==
    [i \in 1..Len(StarData) |->
        StarMarker(StarData[i],
                   celestialToCartesian(StarData[i].ra, StarData[i].dec, observerLat,
                                        observerLon, now, 200))]

\* star => star.position[1] > 0
AboveHorizon(star) == Lt(0, star.position[2])

\* the revision with .filter(star => star.position[1] > 0)
RealStarsFiltered(observerLat, observerLon, now) ==
    SelectSeq(RealStarsUnfiltered(observerLat, observerLon, now), AboveHorizon)

\* the value of the useMemo of the build when it runs at the instant now
RealStars(observerLat, observerLon, now) ==
    IF realStarsRev = "filtered"
    THEN RealStarsFiltered(observerLat, observerLon, now)
    ELSE RealStarsUnfiltered(observerLat, observerLon, now)

(***************************************************************************)
(* UAPTracker.jsx: the per-frame callbacks of Planes and Satellites        *)
(***************************************************************************)
\* Faulty variant of the elapsed time: the clamp at 0 is gone
ElapsedSecondsUnclamped(plane, now) ==
    IF Truthy(plane.timePos) THEN now - plane.timePos ELSE 0

\* timePos ? Math.max(0, now - timePos) : 0
ElapsedSeconds(plane, now) ==
    IF Truthy(plane.timePos) THEN Max(0, now - plane.timePos) ELSE 0

\* Faulty variant of the extrapolation: the heading is measured from East,
\* so that cos(heading) moves the longitude and sin(heading) the latitude
VirtualPlaneFromEast(plane, now) ==
    LET distMoved == RoundDiv(OrZero(plane.velocity) * ElapsedSeconds(plane, now),
                              1000)
        headingRad == DegToRad(OrZero(plane.heading))
        dLat == ArcAngle(Mul(distMoved, Sin(headingRad)), R)
        dLon == Div(ArcAngle(Mul(distMoved, Cos(headingRad)), R),
                    Cos(DegToRad(plane.lat)))
    IN  [plane EXCEPT !.lon = plane.lon + RoundDiv(dLon, 2),
                      !.lat = plane.lat + RoundDiv(dLat, 2),
                      !.alt = OrZero(plane.alt)
                              + OrZero(plane.verticalRate) * ElapsedSeconds(plane, now)]

\* Faulty variant of the extrapolation: the fields are read without their
\* "|| 0", so that an absent speed, heading, altitude or vertical rate
\* carries NaN into the new position
VirtualPlaneNoDefaults(plane, now) ==
    LET bare(v) == v = NULL
        elapsedSeconds == ElapsedSeconds(plane, now)
        distMoved == RoundDiv(OrZero(plane.velocity) * elapsedSeconds, 1000)
        headingRad == DegToRad(OrZero(plane.heading))
        dLat == ArcAngle(Mul(distMoved, Cos(headingRad)), R)
        dLon == Div(ArcAngle(Mul(distMoved, Sin(headingRad)), R),
                    Cos(DegToRad(plane.lat)))
        lost == bare(plane.velocity) \/ bare(plane.heading)
    IN  [plane EXCEPT
            !.lon = IF lost THEN NaN ELSE plane.lon + RoundDiv(dLon, 2),
            !.lat = IF lost THEN NaN ELSE plane.lat + RoundDiv(dLat, 2),
            !.alt = IF bare(plane.alt) \/ bare(plane.verticalRate)
                    THEN NaN
                    ELSE plane.alt + plane.verticalRate * elapsedSeconds]

\* the state vector extrapolated along its heading to the instant now
\* (callers have checked that lat and lon are not null)
VirtualPlane(plane, now) ==
    LET velocity     == OrZero(plane.velocity)
        heading      == OrZero(plane.heading)
        lat          == plane.lat
        lon          == plane.lon
        alt          == OrZero(plane.alt)
        verticalRate == OrZero(plane.verticalRate)
        elapsedSeconds == ElapsedSeconds(plane, now)
        headingRad   == DegToRad(heading)
        latRad       == DegToRad(lat)
        distMoved    == RoundDiv(velocity * elapsedSeconds, 1000)
        dLat         == ArcAngle(Mul(distMoved, Cos(headingRad)), R)
        dLon         == Div(ArcAngle(Mul(distMoved, Sin(headingRad)), R),
                            Cos(latRad))
        newLat       == lat + RoundDiv(dLat, 2)
        newLon       == lon + RoundDiv(dLon, 2)
        newAlt       == alt + verticalRate * elapsedSeconds
    IN  [plane EXCEPT !.lon = newLon, !.lat = newLat, !.alt = newAlt]

\* lines 170-181: the marker of an aircraft with the look angles relativePos
PlaneMarker(plane, relativePos) ==
    IF relativePos = Null THEN Null
    ELSE IF Lt(relativePos.elevation, 0) THEN Null
    ELSE [id       |-> plane.id,
          callsign |-> IF relativePos.callsign # ""
                       THEN relativePos.callsign ELSE plane.id,
          position |-> polarToCartesian(relativePos.azimuth,
                                        relativePos.elevation, 60),
          heading  |-> OrZero(plane.heading)]

\* the callback of planes.map: the marker of one aircraft, or null
PlaneEntry(plane, observerLat, observerLon, now) ==
    IF plane.lat = NULL \/ plane.lon = NULL THEN Null
    ELSE PlaneMarker(plane,
                     getPlanePositionRelative(VirtualPlane(plane, now), observerLat,
                                              observerLon, 0))

\* planes.map(...).filter(p => p !== null)
PlaneMarkers(planes, observerLat, observerLon, now) ==
    SelectSeq([i \in 1..Len(planes) |->
                  PlaneEntry(planes[i], observerLat, observerLon, now)],
              NotNull)

\* lines 82-92: the marker of a satellite with the look angles relativePos
SatMarker(sat, relativePos) ==
    IF relativePos = Null THEN Null
    ELSE IF Lt(relativePos.elevation, 0) THEN Null
    ELSE [id       |-> sat.name,
          position |-> polarToCartesian(relativePos.azimuth,
                                        relativePos.elevation, 80),
          info     |-> sat]

\* the callback of satellites.map: the marker of one satellite, or null
SatEntry(sat, observerLat, observerLon, now) ==
    SatMarker(sat, getSatPositionRelative(sat.satrec, now, observerLat,
                                          observerLon, 0))

\* satellites.map(...).filter(p => p !== null)
SatMarkers(satellites, observerLat, observerLon, now) ==
    SelectSeq([i \in 1..Len(satellites) |->
                  SatEntry(satellites[i], observerLat, observerLon, now)],
              NotNull)

\* data.slice(0, 500)
MaxSatellites == 500

Slice(data, n) == SubSeq(data, 1, Min(Len(data), n))

(***************************************************************************)
(* UAPTracker.jsx, the revision with the compass offset and the sunlit     *)
(* filter, and the two functions of satelliteUtils.js it adds              *)
(***************************************************************************)
\* getSatellitePosition(satrec, date): the inertial position, or null
getSatellitePosition(satrec, date) ==
    LET positionAndVelocity == propagate(satrec, date)
        positionEci == positionAndVelocity.position
    IN  IF positionEci = Null THEN Null
        ELSE Vec(positionEci.x, positionEci.y, positionEci.z)

\* the shadow test of isSatVisible, given the inertial position
SunlitAt(pos, sunPos) == IF pos = Null THEN FALSE ELSE isSunlit(pos, sunPos)

\* Faulty variant of isSatVisible: the shadow test is gone
isSatVisibleAboveHorizon(satrec, date, relativePos, sunPos) ==
    IF Lt(relativePos.elevation, 0) THEN FALSE
    ELSE getSatellitePosition(satrec, date) # Null

\* isSatVisible(satrec, date, relativePos, sunPos)
isSatVisible(satrec, date, relativePos, sunPos) ==
    IF Lt(relativePos.elevation, 0) THEN FALSE
    ELSE SunlitAt(getSatellitePosition(satrec, date), sunPos)

\* the marker of a satellite that passed the tests of the callback
SkySatMarker(sat, relativePos, offsetRad) ==
    [id       |-> sat.name,
     position |-> polarToCartesian(relativePos.azimuth + offsetRad,
                                   relativePos.elevation, 150),
     info     |-> sat]

\* the callback of satellites.map: the marker of one satellite, or null
SkySatEntry(sat, date, relativePos, sunPos, offsetRad, filterVisible) ==
    IF relativePos = Null THEN Null
    ELSE IF Lt(relativePos.elevation, 0) THEN Null
    ELSE IF filterVisible /\ ~isSatVisible(sat.satrec, date, relativePos, sunPos)
    THEN Null
    ELSE SkySatMarker(sat, relativePos, offsetRad)

\* satellites.map(...).filter(p => p !== null) of Satellites
SkySatMarkers(satellites, observerLat, observerLon, now, azimuthOffset, filterVisible) ==
    SelectSeq([i \in 1..Len(satellites) |->
                  SkySatEntry(satellites[i], now,
                              getSatPositionRelative(satellites[i].satrec, now,
                                                     observerLat, observerLon, 0),
                              getSunPositionECI(now), DegToRad(azimuthOffset),
                              filterVisible)],
              NotNull)

\* the callback of planes.map: the marker of one aircraft, or null; the
\* state vector is taken as reported
SkyPlaneEntry(plane, relativePos, offsetRad) ==
    IF relativePos = Null THEN Null
    ELSE IF Lt(relativePos.elevation, 0) THEN Null
    ELSE [id       |-> plane.id,
          callsign |-> IF relativePos.callsign # ""
                       THEN relativePos.callsign ELSE plane.id,
          position |-> polarToCartesian(relativePos.azimuth + offsetRad,
                                        relativePos.elevation, 80)]

\* planes.map(...).filter(p => p !== null) of Planes
SkyPlaneMarkers(planes, observerLat, observerLon, azimuthOffset) ==
    SelectSeq([i \in 1..Len(planes) |->
                  SkyPlaneEntry(planes[i],
                                getPlanePositionRelative(planes[i], observerLat,
                                                         observerLon, 0),
                                DegToRad(azimuthOffset))],
              NotNull)

\* Faulty variant of SkyGroup: the group is never turned
SkyRotationNone(azimuthOffset) == 0

\* SkyGroup: rotation.y = -azimuthOffset * (Math.PI / 180)
SkyRotation(azimuthOffset) == DegToRad(-azimuthOffset)

\* a point of a group whose rotation.y is angle, in the frame of the scene
\* (Object3D of three.js: a turn about the Y axis)
RotateY(p, angle) ==
    <<Mul(p[1], Cos(angle)) + Mul(p[3], Sin(angle)),
      p[2],
      Mul(p[3], Cos(angle)) - Mul(p[1], Sin(angle))>>

\* values of the compass offset slider (degrees, -180 to 180)
CompassOffsets == {-90, 0, 30}

(***************************************************************************)
(* The application                                                         *)
(***************************************************************************)
VARIABLES
    now,            \* the wall clock, Unix seconds
    observerLat,    \* state of UAPTracker
    observerLon,
    azimuthOffset,  \*   its later revision: the compass offset (degrees)
    filterVisible,  \*   and the "show only sunlit" switch
    rotationY,      \* rotation.y of the group of SkyGroup (half degrees)
    planes,         \* state of Planes: the last state vectors fetched
    planePositions, \*   and the markers it renders
    satellites,     \* state of Satellites: the element sets fetched
    satPositions,   \*   and the markers it renders
    satsLoaded,     \* fetchTLEs has resolved
    stars,          \* the memoized star markers of RealStars
    last,           \* the step taken last
    call,           \* the last direct call of a transform: name, arguments, result
    calls,          \* the direct calls of a session, in order
    planesMounted,  \* Planes is mounted
    effectRuns,     \* number of runs of the polling effect of Planes
    timers,         \* its active interval timers: [id, lat, lon], the observer
                    \*   position being the one in the closure of loadPlanes
    issued,         \* number of aircraft requests issued
    inflight,       \* the requests not yet settled: [id, lat, lon]
    planesFor,      \* the observer position the stored list was requested for
    arMounted,      \* AROverlay is mounted
    arActive,       \*   its prop active
    arStream,       \*   its state stream (NoStream is null)
    arClosure,      \*   the stream in the closure of its last effect
    arPending,      \*   its calls of getUserMedia not yet settled (numbers)
    vbMounted,      \* VideoBackground is mounted
    vbPending,      \*   its calls not yet settled: [id, active], active being
                    \*   the flag of the effect run that made the call
    vbStream,       \*   its state stream
    mediaCalls,     \* number of calls of getUserMedia made; a stream has the
                    \*   number of the call that acquired it
    running,        \* the streams whose tracks run: [id, owner]
    received,       \* number of requests the proxy has received
    upstream,       \* for each, how its upstream call settled (Pending before)
    responses       \* for each, the responses sent: [status, body]

\* the state of the aircraft polling
polls == <<planesMounted, effectRuns, timers, issued, inflight, planesFor>>

\* the state of the camera components
camera == <<arMounted, arActive, arStream, arClosure, arPending, vbMounted,
            vbPending, vbStream, mediaCalls, running>>

\* the state of the proxy of server.js
proxy == <<received, upstream, responses>>

\* the state of the later revision's compass correction and filter
sky == <<azimuthOffset, filterVisible, rotationY>>

vars == <<planeUtilsRev, realStarsRev, now, observerLat, observerLon, planes,
          planePositions, satellites, satPositions, satsLoaded, stars, last, call,
          calls, sky, polls, camera, proxy>>

\* useState(null): no camera stream
NoStream == 0

\* number of requests the proxy receives
MaxProxyRequests == 3

\* the upstream call of a request has not settled
Pending == [kind |-> "pending", status |-> 0, data |-> "none"]

\* the request loadPlanes issues for the observer at (lat, lon), whose
\* bounding box is the observer's position +- 2 degrees
Request(id, lat, lon) ==
    [id |-> id, lat |-> lat, lon |-> lon,
     minLat |-> lat - 2, minLon |-> lon - 2, maxLat |-> lat + 2, maxLon |-> lon + 2]

\* the timer setInterval(loadPlanes, 10000) creates in an effect that ran
\* for the observer at (lat, lon)
Timer(id, lat, lon) == [id |-> id, lat |-> lat, lon |-> lon]

\* no transform has been called directly
NoCall == [fn |-> "none"]

Init ==
    /\ planeUtilsRev \in {"flat", "raw", "curved"}
    /\ realStarsRev \in {"unfiltered", "filtered"}
    /\ now = T0
    /\ observerLat = 41
    /\ observerLon = -74
    /\ planes = <<>>
    /\ planePositions = <<>>
    /\ satellites = <<>>
    /\ satPositions = <<>>
    /\ satsLoaded = FALSE
    /\ stars = RealStars(41, -74, T0)
    /\ last = "mount"
    /\ call = NoCall
    /\ calls = <<>>
    /\ azimuthOffset = 0
    /\ filterVisible = FALSE
    /\ rotationY = 0
    /\ planesMounted = TRUE
    /\ effectRuns = 1
    /\ timers = {Timer(1, 41, -74)}
    /\ issued = 1
    /\ inflight = {Request(1, 41, -74)}
    /\ planesFor = Null
    /\ arMounted = TRUE
    /\ arActive = FALSE
    /\ arStream = NoStream
    /\ arClosure = NoStream
    /\ arPending = {}
    /\ vbMounted = FALSE
    /\ vbPending = {}
    /\ vbStream = NoStream
    /\ mediaCalls = 0
    /\ running = {}
    /\ received = 0
    /\ upstream = [id \in 1..MaxProxyRequests |-> Pending]
    /\ responses = [id \in 1..MaxProxyRequests |-> <<>>]

\* time passes
Tick ==
    /\ now < T0 + MaxTicks * TickSeconds
    /\ now' = now + TickSeconds
    /\ last' = "Tick"
    /\ UNCHANGED <<call, calls, sky, polls, camera, proxy, planeUtilsRev,
                   realStarsRev,
                   observerLat, observerLon, planes, planePositions,
                   satellites, satPositions, satsLoaded, stars>>

\* the geolocation watch reports a position; RealStars recomputes its memo
\* when a dependency (observerLat, observerLon) has changed
WatchPosition ==
    \E pos \in Observers :
        /\ observerLat' = pos.lat
        /\ observerLon' = pos.lon
        /\ stars' = IF pos.lat # observerLat \/ pos.lon # observerLon
                    THEN RealStars(pos.lat, pos.lon, now)
                    ELSE stars
        /\ last' = "WatchPosition"
        /\ UNCHANGED <<call, calls, sky, polls, camera, proxy, planeUtilsRev,
                   realStarsRev, now,
                       planes, planePositions, satellites, satPositions,
                       satsLoaded>>

\* loadPlanes: a poll of the aircraft feed resolves
LoadPlanes ==
    /\ Truthy(observerLat) /\ Truthy(observerLon)
    /\ \E data \in PlaneFeeds : planes' = data
    /\ last' = "LoadPlanes"
    /\ UNCHANGED <<call, calls, sky, polls, camera, proxy, planeUtilsRev,
                   realStarsRev, now,
                   observerLat, observerLon, planePositions, satellites,
                   satPositions, satsLoaded, stars>>

\* loadData: the one fetch of the element sets resolves
LoadSatellites ==
    /\ ~satsLoaded
    /\ \E data \in SatFeeds : satellites' = Slice(data, MaxSatellites)
    /\ satsLoaded' = TRUE
    /\ last' = "LoadSatellites"
    /\ UNCHANGED <<call, calls, sky, polls, camera, proxy, planeUtilsRev,
                   realStarsRev, now,
                   observerLat, observerLon, planes, planePositions,
                   satPositions, stars>>

\* Faulty variant of the callback: the extrapolated position is written to
\* the stored record itself instead of a copy
PlanesFrameInPlace ==
    /\ planePositions' = IF Len(planes) = 0 THEN planePositions
                         ELSE PlaneMarkers(planes, observerLat, observerLon, now)
    /\ planes' = [i \in 1..Len(planes) |->
                      IF planes[i].lat = NULL \/ planes[i].lon = NULL
                      THEN planes[i] ELSE VirtualPlane(planes[i], now)]
    /\ last' = "PlanesFrame"
    /\ UNCHANGED <<call, calls, sky, polls, camera, proxy, planeUtilsRev,
                   realStarsRev, now,
                   observerLat, observerLon, satellites, satPositions,
                   satsLoaded, stars>>

\* the useFrame callback of Planes
PlanesFrame ==
    /\ planePositions' = IF Len(planes) = 0 THEN planePositions
                         ELSE PlaneMarkers(planes, observerLat, observerLon, now)
    /\ last' = "PlanesFrame"
    /\ UNCHANGED <<call, calls, sky, polls, camera, proxy, planeUtilsRev,
                   realStarsRev, now,
                   observerLat, observerLon, planes, satellites,
                   satPositions, satsLoaded, stars>>

\* the useFrame callback of Satellites
SatellitesFrame ==
    /\ satPositions' = IF Len(satellites) = 0 THEN satPositions
                       ELSE SatMarkers(satellites, observerLat, observerLon, now)
    /\ last' = "SatellitesFrame"
    /\ UNCHANGED <<call, calls, sky, polls, camera, proxy, planeUtilsRev,
                   realStarsRev, now,
                   observerLat, observerLon, planes, planePositions,
                   satellites, satsLoaded, stars>>

Next ==
    \/ Tick
    \/ WatchPosition
    \/ LoadPlanes
    \/ LoadSatellites
    \/ PlanesFrame
    \/ SatellitesFrame

Spec == Init /\ [][Next]_vars

(***************************************************************************)
(* The transforms called directly, on a grid of arguments                  *)
(***************************************************************************)
\* the application's own state, untouched by a direct call; each behaviour
\* makes one call
app == <<planeUtilsRev, realStarsRev, now, observerLat, observerLon, planes,
         planePositions, satellites, satPositions, satsLoaded, stars, last, calls,
         sky, polls, camera, proxy>>

\* right ascensions and sidereal times (millihours), declinations and
\* latitudes (degrees) of the grid
GridHours == {0, 3000, 6000, 18000}

GridDecs == {-90, -45, -8, 0, 8, 41, 45, 90}

GridLats == {-90, -41, 0, 8, 41, 90}

\* observers, offsets of the aircraft from the observer (degrees), and
\* altitudes (metres) of the grid
GridObservers == { [lat |-> 41, lon |-> -74], [lat |-> 0, lon |-> 0],
                   [lat |-> -34, lon |-> 151] }

GridOffsets == {-1, 0, 1, 45}

GridAlts == {0, 1000, 10000}

CallCelestialToHorizontal ==
    /\ call = NoCall
    /\ \E ra \in GridHours, dec \in GridDecs, lat \in GridLats, lst \in GridHours :
          call' = [fn     |-> "celestialToHorizontal",
                   args   |-> [ra |-> ra, dec |-> dec, lat |-> lat, lst |-> lst],
                   result |-> celestialToHorizontal(ra, dec, lat, lst)]
    /\ UNCHANGED app

CallGetPlanePositionRelative ==
    /\ call = NoCall
    /\ \E o \in GridObservers, observerAlt \in GridAlts :
       \E pLat \in {o.lat + d : d \in GridOffsets} \cup {NULL},
          pLon \in {o.lon + d : d \in GridOffsets} \cup {NULL},
          pAlt \in GridAlts \cup {NULL} :
          LET planeState == StateVector("a0", "TEST", NULL, pLon, pLat, pAlt,
                                        NULL, NULL, NULL)
          IN  call' = [fn     |-> "getPlanePositionRelative",
                       args   |-> [planeState |-> planeState,
                                   observerLat |-> o.lat, observerLon |-> o.lon,
                                   observerAlt |-> observerAlt],
                       result |-> getPlanePositionRelative(planeState, o.lat,
                                                           o.lon, observerAlt)]
    /\ UNCHANGED app

\* positions of an object (km) and Sun vectors of the grid; the object is also
\* put on the Sun's axis, on either side of the Earth
GridKm == {-7000, 0, 6370, 6371}

GridPositions == {Vec(x, y, z) : x \in GridKm, y \in GridKm, z \in {0, 6370}}

GridSuns == {Vec(1, 0, 0), Vec(0, 0, 0), Vec(-2, 2, 1), Vec(0, 0, -2)}

GridFactors == {-3000, 0, 3000}

Scaled(v, k) == Vec(k * v.x, k * v.y, k * v.z)

CallIsSunlit ==
    /\ call = NoCall
    /\ \E sunPos \in GridSuns :
       \E satPos \in GridPositions \cup {Scaled(sunPos, k) : k \in GridFactors} :
          call' = [fn     |-> "isSunlit",
                   args   |-> [satPos |-> satPos, sunPos |-> sunPos],
                   result |-> isSunlit(satPos, sunPos)]
    /\ UNCHANGED app

\* look angles (half degrees) and radii of the grid
GridAzimuths == {0, 60, PI \div 2, PI, PI + PI \div 2, -90}

GridElevations == {-60, 0, 90, PI \div 2}

GridRadii == {60, 80, 200}

CallPolarToCartesian ==
    /\ call = NoCall
    /\ \E azimuth \in GridAzimuths, elevation \in GridElevations,
          distance \in GridRadii :
          call' = [fn     |-> "polarToCartesian",
                   args   |-> [azimuth |-> azimuth, elevation |-> elevation,
                               distance |-> distance],
                   result |-> polarToCartesian(azimuth, elevation, distance)]
    /\ UNCHANGED app

\* instants of the grid: before and after J2000, and the midnights before
\* and after it
GridDates == {J2000 - TickSeconds, J2000 + TickSeconds, J2000 - DaySeconds \div 2,
              J2000 + DaySeconds \div 2}

\* longitudes of the grid, in millidegrees: the limits, Greenwich, New York,
\* Sydney, and the meridians 0.001 and 0.002 hours west of the one where the
\* sidereal time is 0 at one of the instants
GridLons ==
    {-180000, -74006, 0, 151209, 180000}
        \cup {-15 * (getLocalSiderealTime(0, date) + k) :
                  date \in {J2000 + DaySeconds \div 2}, k \in {0, 1, 2}}

\* aircraft of the grid: latitudes (the poles left out: the model's cosine is
\* exactly 0 there), speeds (m/s) that move an aircraft by more than the
\* degree the model resolves in the hour between two instants, headings
GridPlaneLats == {-41, 0, 41, 89}

GridSpeeds == {0, 100, 250}

GridHeadings == {0, 90, 180, NULL}

\* the time stamps of a state vector: a position report at J2000, none, 0
GridTimePos == {J2000, NULL, 0}

\* the altitude (m) and the vertical rate (m/s) of a state vector: reported,
\* or both null
GridClimbs == {[alt |-> 10000, verticalRate |-> 5], [alt |-> NULL, verticalRate |-> NULL]}

\* lines 136-167 of the callback of planes.map: the extrapolation of one
\* state vector, time-stamped at J2000 or not at all, to an instant before
\* or after
CallExtrapolate ==
    /\ call = NoCall
    /\ \E lat \in GridPlaneLats, velocity \in GridSpeeds \cup {NULL},
          heading \in GridHeadings, timePos \in GridTimePos, climb \in GridClimbs,
          date \in {J2000 - TickSeconds, J2000, J2000 + TickSeconds} :
          LET plane == StateVector("a0", "TEST", timePos, -74, lat, climb.alt,
                                   velocity, heading, climb.verticalRate)
          IN  call' = [fn     |-> "virtualPlane",
                       args   |-> [plane |-> plane, now |-> date],
                       result |-> VirtualPlane(plane, date)]
    /\ UNCHANGED app

\* what the request of fetchPlanes may settle with
GridOutcomes ==
    {[kind |-> "error", why |-> w, body |-> "none", states |-> <<>>] : w \in Failures}
    \cup {[kind |-> "response", why |-> "none", body |-> b, states |-> <<>>] :
             b \in {"states", "nullStates", "noStates", "nullData"}}
    \cup {[kind |-> "response", why |-> "none", body |-> "states", states |-> feed] :
             feed \in PlaneFeeds}

\* the revisions of fetchPlanes: src/utils/planeUtils.js, the first one
\* (simulated aircraft on failure) and the second one of part_003
FetchPlanesRevs == {"proxy", "mock", "direct"}

\* draws of Math.random for the five simulated aircraft, in quarters
GridRandom == {<<0, 1, 2, 3, 0>>, <<3, 3, 1, 0, 2>>}

CallFetchPlanes ==
    /\ call = NoCall
    /\ \E rev \in FetchPlanesRevs, outcome \in GridOutcomes, o \in GridObservers,
          random \in GridRandom :
          call' = [fn     |-> "fetchPlanes",
                   args   |-> [rev |-> rev, outcome |-> outcome,
                               minLat |-> o.lat - 2, minLon |-> o.lon - 2,
                               maxLat |-> o.lat + 2, maxLon |-> o.lon + 2,
                               random |-> random],
                   result |-> fetchPlanes(rev, outcome, o.lat - 2, o.lon - 2,
                                          o.lat + 2, o.lon + 2, random)]
    /\ UNCHANGED app

\* lines of a feed of element sets: none, a carriage return, a name, the two
\* lines of an element set (with the carriage return of the feed), the same
\* after a blank, and a first line that is only its number and a blank
GridLines ==
    { <<>>, <<"\r">>, <<"N">>, <<"1", " ", "5", "\r">>, <<" ", "1", " ", "5">>,
      <<"1", " ">>, <<"2", " ", "5", "\r">>, <<" ", "2", " ", "5">> }

\* what follows the first three lines: nothing, the end of the last line, a
\* second element set, two lines
GridTails ==
    { <<>>, << <<>> >>, << <<"M">>, <<"1", " ", "6">>, <<"2", " ", "6">> >>,
      << <<"2", " ", "7">>, <<"M">> >> }

\* the text made of the lines
RECURSIVE Join(_)
Join(lines) ==
    IF Len(lines) = 1 THEN lines[1]
    ELSE lines[1] \o <<"\n">> \o Join(Tail(lines))

\* what the request of fetchTLEs may settle with
GridTLEOutcomes ==
    {[kind |-> "error", body |-> "none", data |-> <<>>],
     [kind |-> "response", body |-> "object", data |-> <<>>],
     [kind |-> "response", body |-> "text", data |-> <<>>]}
    \cup {[kind |-> "response", body |-> "text",
           data |-> Join(<<l0, l1, l2>> \o tail)] :
             l0 \in GridLines, l1 \in GridLines, l2 \in GridLines, tail \in GridTails}

CallFetchTLEs ==
    /\ call = NoCall
    /\ \E outcome \in GridTLEOutcomes :
          call' = [fn     |-> "fetchTLEs",
                   args   |-> [outcome |-> outcome],
                   result |-> fetchTLEs(outcome)]
    /\ UNCHANGED app

CallGetLocalSiderealTime ==
    /\ call = NoCall
    /\ \E lon \in GridLons, date \in GridDates :
          call' = [fn     |-> "getLocalSiderealTime",
                   args   |-> [lon |-> lon, date |-> date],
                   result |-> getLocalSiderealTime(lon, date)]
    /\ UNCHANGED app

CallCelestialToCartesian ==
    /\ call = NoCall
    /\ \E ra \in GridHours, dec \in {-45, 0, 41, 90}, o \in GridObservers,
          date \in GridDates, radius \in {100, 200} :
          call' = [fn     |-> "celestialToCartesian",
                   args   |-> [ra |-> ra, dec |-> dec, lat |-> o.lat, lon |-> o.lon,
                               date |-> date, radius |-> radius],
                   result |-> celestialToCartesian(ra, dec, o.lat, o.lon, date,
                                                   radius)]
    /\ UNCHANGED app

NextTransforms ==
    \/ CallCelestialToHorizontal
    \/ CallGetPlanePositionRelative
    \/ CallIsSunlit
    \/ CallPolarToCartesian
    \/ CallCelestialToCartesian
    \/ CallGetLocalSiderealTime
    \/ CallExtrapolate
    \/ CallFetchPlanes
    \/ CallFetchTLEs

SpecTransforms == Init /\ [][NextTransforms]_vars

(***************************************************************************)
(* The transforms called repeatedly while the clock runs                   *)
(***************************************************************************)
\* number of direct calls in a session
MaxCalls == 3

\* a call: the transform's name and its arguments
Invocation(fn, args) == [fn |-> fn, args |-> args]

\* the calls a session may make
Invocations ==
    {Invocation("getLocalSiderealTime", [lon |-> -74006, date |-> date]) :
         date \in {J2000 - TickSeconds, J2000 + TickSeconds}}
    \cup {Invocation("celestialToHorizontal",
                     [ra |-> 6000, dec |-> 45, lat |-> 41, lst |-> 3000])}
    \cup {Invocation("celestialToCartesian",
                     [ra |-> 6000, dec |-> 45, lat |-> 41, lon |-> -74,
                      date |-> J2000, radius |-> 200])}
    \cup {Invocation("getSunPositionECI", [date |-> J2000])}
    \cup {Invocation("isSunlit", [satPos |-> Vec(-7000, 0, 0), sunPos |-> Vec(1, 0, 0)])}
    \cup {Invocation("getPlanePositionRelative",
                     [planeState |-> PlaneNorth, observerLat |-> 41,
                      observerLon |-> -74, observerAlt |-> 0])}
    \cup {Invocation("polarToCartesian",
                     [azimuth |-> 60, elevation |-> 90, distance |-> 60])}

\* Faulty variant of the transforms: getLocalSiderealTime reads the instant
\* from the clock (new Date()) and not from its argument
ApplyAtClock(fn, a) ==
    CASE fn = "getLocalSiderealTime" -> getLocalSiderealTime(a.lon, now)
      [] fn = "celestialToHorizontal" ->
             celestialToHorizontal(a.ra, a.dec, a.lat, a.lst)
      [] fn = "celestialToCartesian" ->
             celestialToCartesian(a.ra, a.dec, a.lat, a.lon, now, a.radius)
      [] fn = "getSunPositionECI" -> getSunPositionECI(a.date)
      [] fn = "isSunlit" -> isSunlit(a.satPos, a.sunPos)
      [] fn = "getPlanePositionRelative" ->
             getPlanePositionRelative(a.planeState, a.observerLat, a.observerLon,
                                      a.observerAlt)
      [] fn = "polarToCartesian" ->
             polarToCartesian(a.azimuth, a.elevation, a.distance)

\* the value the transform fn returns for the arguments a
Apply(fn, a) ==
    CASE fn = "getLocalSiderealTime" -> getLocalSiderealTime(a.lon, a.date)
      [] fn = "celestialToHorizontal" ->
             celestialToHorizontal(a.ra, a.dec, a.lat, a.lst)
      [] fn = "celestialToCartesian" ->
             celestialToCartesian(a.ra, a.dec, a.lat, a.lon, a.date, a.radius)
      [] fn = "getSunPositionECI" -> getSunPositionECI(a.date)
      [] fn = "isSunlit" -> isSunlit(a.satPos, a.sunPos)
      [] fn = "getPlanePositionRelative" ->
             getPlanePositionRelative(a.planeState, a.observerLat, a.observerLon,
                                      a.observerAlt)
      [] fn = "polarToCartesian" ->
             polarToCartesian(a.azimuth, a.elevation, a.distance)

\* one more call of a transform, at the clock's present reading
Invoke ==
    /\ Len(calls) < MaxCalls
    /\ \E inv \in Invocations :
          calls' = Append(calls, [fn |-> inv.fn, args |-> inv.args,
                                  result |-> Apply(inv.fn, inv.args), at |-> now])
    /\ last' = "Invoke"
    /\ UNCHANGED <<call, sky, polls, camera, proxy, planeUtilsRev, realStarsRev, now,
                   observerLat,
                   observerLon, planes, planePositions, satellites, satPositions,
                   satsLoaded, stars>>

NextRepeat ==
    \/ Invoke
    \/ Tick

SpecRepeat == Init /\ [][NextRepeat]_vars

(***************************************************************************)
(* The application in its revision with the compass offset                 *)
(***************************************************************************)
\* the state a change of the settings or a poll leaves alone
mounted == <<planeUtilsRev, realStarsRev, now, observerLat, observerLon, stars,
             call, calls, polls, camera, proxy>>

\* the slider of the settings panel: setAzimuthOffset(parseFloat(value))
SetAzimuthOffset ==
    /\ \E value \in CompassOffsets : azimuthOffset' = value
    /\ last' = "SetAzimuthOffset"
    /\ UNCHANGED <<mounted, filterVisible, rotationY, planes, planePositions,
                   satellites, satPositions, satsLoaded>>

\* the button of the settings panel: setFilterVisible(!filterVisible)
ToggleFilterVisible ==
    /\ filterVisible' = ~filterVisible
    /\ last' = "ToggleFilterVisible"
    /\ UNCHANGED <<mounted, azimuthOffset, rotationY, planes, planePositions,
                   satellites, satPositions, satsLoaded>>

\* loadPlanes of this revision: a poll of the aircraft feed resolves
SkyLoadPlanes ==
    /\ \E data \in PlaneFeeds : planes' = data
    /\ last' = "LoadPlanes"
    /\ UNCHANGED <<mounted, sky, planePositions, satellites, satPositions,
                   satsLoaded>>

\* a rendered frame: the useFrame callbacks of SkyGroup, Satellites and
\* Planes; Scene hands azimuthOffset to SkyGroup and 0 to the other two
SkyFrame ==
    /\ rotationY' = SkyRotation(azimuthOffset)
    /\ satPositions' = IF Len(satellites) = 0 THEN satPositions
                       ELSE SkySatMarkers(satellites, observerLat, observerLon, now,
                                          0, filterVisible)
    /\ planePositions' = IF Len(planes) = 0 THEN planePositions
                         ELSE SkyPlaneMarkers(planes, observerLat, observerLon, 0)
    /\ last' = "SkyFrame"
    /\ UNCHANGED <<mounted, azimuthOffset, filterVisible, planes, satellites,
                   satsLoaded>>

NextSky ==
    \/ SetAzimuthOffset
    \/ ToggleFilterVisible
    \/ SkyLoadPlanes
    \/ LoadSatellites
    \/ SkyFrame

SpecSky == Init /\ [][NextSky]_vars

(***************************************************************************)
(* Planes of src/pages/UAPTracker.jsx: the polling effect                  *)
(*   useEffect(() => { loadPlanes(); const interval = setInterval(...);    *)
(*                     return () => clearInterval(interval) },             *)
(*             [observerLat, observerLon])                                 *)
(* with its requests in flight.  Init is the state after the mount: the    *)
(* effect has run once for the default observer.                           *)
(***************************************************************************)
\* number of aircraft requests explored
MaxRequests == 3

\* number of runs of the polling effect explored
MaxEffects == 3

\* Faulty variant of the guard of loadPlanes: the guard is gone
ShouldRequestAlways(lat, lon) == TRUE

\* the guard of loadPlanes: if (!observerLat || !observerLon) return
ShouldRequest(lat, lon) == Truthy(lat) /\ Truthy(lon)

\* Faulty variant of the cleanup: the timer is left running
AfterNoCleanup(timerSet, interval) == timerSet

\* the cleanup of the effect, clearInterval(interval)
AfterCleanup(timerSet, interval) == {t \in timerSet : t.id # interval}

\* loadPlanes up to its await, in a closure that holds the observer position
\* (lat, lon)
loadPlanes(lat, lon) ==
    IF ShouldRequest(lat, lon)
    THEN /\ inflight' = inflight \cup {Request(issued + 1, lat, lon)}
         /\ issued' = issued + 1
    ELSE UNCHANGED <<inflight, issued>>

\* the part of the state the polling leaves alone
unpolled == <<planeUtilsRev, realStarsRev, now, planePositions, satellites,
              satPositions, satsLoaded, call, calls, sky, camera, proxy>>

\* the observer moves: RealStars recomputes its memo, React runs the cleanup
\* of the polling effect and then the effect again
MoveObserver ==
    /\ planesMounted
    /\ effectRuns < MaxEffects
    /\ issued < MaxRequests
    /\ \E pos \in Observers :
        /\ pos.lat # observerLat \/ pos.lon # observerLon
        /\ observerLat' = pos.lat
        /\ observerLon' = pos.lon
        /\ stars' = RealStars(pos.lat, pos.lon, now)
        /\ loadPlanes(pos.lat, pos.lon)
        /\ timers' = AfterCleanup(timers, effectRuns)
                         \cup {Timer(effectRuns + 1, pos.lat, pos.lon)}
    /\ effectRuns' = effectRuns + 1
    /\ last' = "MoveObserver"
    /\ UNCHANGED <<unpolled, planesMounted, planes, planesFor>>

\* ten seconds have passed on an active timer: loadPlanes runs in the closure
\* of the effect that created the timer
IntervalFires ==
    /\ issued < MaxRequests
    /\ \E t \in timers : loadPlanes(t.lat, t.lon)
    /\ last' = "IntervalFires"
    /\ UNCHANGED <<unpolled, observerLat, observerLon, stars, planesMounted,
                   effectRuns, timers, planes, planesFor>>

\* a request settles: fetchPlanes resolves and loadPlanes goes on after its
\* await with setPlanes(data), which does nothing once Planes is unmounted
PollResolves ==
    /\ \E r \in inflight, data \in PlaneFeeds :
        /\ inflight' = inflight \ {r}
        /\ planes' = IF planesMounted THEN data ELSE planes
        /\ planesFor' = IF planesMounted THEN [lat |-> r.lat, lon |-> r.lon]
                        ELSE planesFor
    /\ last' = "PollResolves"
    /\ UNCHANGED <<unpolled, observerLat, observerLon, stars, planesMounted,
                   effectRuns, timers, issued>>

\* Planes unmounts: React runs the cleanup of the effect
UnmountPlanes ==
    /\ planesMounted
    /\ planesMounted' = FALSE
    /\ timers' = AfterCleanup(timers, effectRuns)
    /\ last' = "UnmountPlanes"
    /\ UNCHANGED <<unpolled, observerLat, observerLon, stars, effectRuns, issued,
                   inflight, planes, planesFor>>

NextPolls ==
    \/ MoveObserver
    \/ IntervalFires
    \/ PollResolves
    \/ UnmountPlanes

SpecPolls == Init /\ [][NextPolls]_vars

(***************************************************************************)
(* The camera: AROverlay.jsx and VideoBackground of UAPTracker.jsx          *)
(*                                                                         *)
(* An effect and its cleanup see the state of the render in which the      *)
(* effect ran: the stream of AROverlay's cleanup is the one its state held *)
(* when the prop active last changed, the stream of VideoBackground's      *)
(* cleanup the one of the first render (null).                             *)
(***************************************************************************)
\* number of calls of getUserMedia explored
MaxStreams == 3

\* stream.getTracks().forEach(track => track.stop()), if (stream)
Stop(streams, stream) == {r \in streams : r.id # stream}

\* the part of the state the camera components leave alone
uncamera == <<planeUtilsRev, realStarsRev, now, observerLat, observerLon, planes,
              planePositions, satellites, satPositions, satsLoaded, stars, call,
              calls, sky, polls, proxy>>

\* AROverlay: active becomes true.  The cleanup of the previous effect runs,
\* then the effect: startCamera calls getUserMedia
Activate ==
    /\ arMounted /\ ~arActive
    /\ mediaCalls < MaxStreams
    /\ arActive' = TRUE
    /\ running' = Stop(running, arClosure)
    /\ arClosure' = arStream
    /\ mediaCalls' = mediaCalls + 1
    /\ arPending' = arPending \cup {mediaCalls + 1}
    /\ last' = "Activate"
    /\ UNCHANGED <<uncamera, arMounted, arStream, vbMounted, vbPending, vbStream>>

\* AROverlay: active becomes false.  The cleanup of the previous effect runs,
\* then the effect: the stream of the state is stopped and set to null
Deactivate ==
    /\ arMounted /\ arActive
    /\ arActive' = FALSE
    /\ running' = Stop(Stop(running, arClosure), arStream)
    /\ arClosure' = arStream
    /\ arStream' = NoStream
    /\ last' = "Deactivate"
    /\ UNCHANGED <<uncamera, arMounted, arPending, mediaCalls, vbMounted,
                   vbPending, vbStream>>

\* a call of startCamera gets its stream (from the rear camera or from the
\* fallback): setStream(s), which does nothing once AROverlay is unmounted
MediaResolves ==
    /\ \E c \in arPending :
        /\ arPending' = arPending \ {c}
        /\ running' = running \cup {[id |-> c, owner |-> "AROverlay"]}
        /\ arStream' = IF arMounted THEN c ELSE arStream
    /\ last' = "MediaResolves"
    /\ UNCHANGED <<uncamera, arMounted, arActive, arClosure, mediaCalls, vbMounted,
                   vbPending, vbStream>>

\* both attempts of a call of startCamera are refused: setError
MediaRejects ==
    /\ \E c \in arPending : arPending' = arPending \ {c}
    /\ last' = "MediaRejects"
    /\ UNCHANGED <<uncamera, arMounted, arActive, arStream, arClosure, mediaCalls,
                   vbMounted, vbPending, vbStream, running>>

\* AROverlay unmounts: the cleanup of its last effect runs
UnmountAR ==
    /\ arMounted
    /\ arMounted' = FALSE
    /\ running' = Stop(running, arClosure)
    /\ last' = "UnmountAR"
    /\ UNCHANGED <<uncamera, arActive, arStream, arClosure, arPending, mediaCalls,
                   vbMounted, vbPending, vbStream>>

\* VideoBackground mounts: its effect runs once, setupCamera calls
\* getUserMedia
MountVideo ==
    /\ ~vbMounted
    /\ mediaCalls < MaxStreams
    /\ vbMounted' = TRUE
    /\ vbStream' = NoStream
    /\ mediaCalls' = mediaCalls + 1
    /\ vbPending' = vbPending \cup {[id |-> mediaCalls + 1, active |-> TRUE]}
    /\ last' = "MountVideo"
    /\ UNCHANGED <<uncamera, arMounted, arActive, arStream, arClosure, arPending,
                   running>>

\* a call of setupCamera gets its stream: if (!active) return; setStream(s)
VideoResolves ==
    /\ \E c \in vbPending :
        /\ vbPending' = vbPending \ {c}
        /\ running' = running \cup {[id |-> c.id, owner |-> "VideoBackground"]}
        /\ vbStream' = IF c.active THEN c.id ELSE vbStream
    /\ last' = "VideoResolves"
    /\ UNCHANGED <<uncamera, arMounted, arActive, arStream, arClosure, arPending,
                   mediaCalls, vbMounted>>

\* a call of setupCamera is refused
VideoRejects ==
    /\ \E c \in vbPending : vbPending' = vbPending \ {c}
    /\ last' = "VideoRejects"
    /\ UNCHANGED <<uncamera, arMounted, arActive, arStream, arClosure, arPending,
                   mediaCalls, vbMounted, vbStream, running>>

\* VideoBackground unmounts: the cleanup of its effect sets active to false
\* and stops the stream of the first render, which is null
UnmountVideo ==
    /\ vbMounted
    /\ vbMounted' = FALSE
    /\ vbPending' = {[c EXCEPT !.active = FALSE] : c \in vbPending}
    /\ running' = Stop(running, NoStream)
    /\ last' = "UnmountVideo"
    /\ UNCHANGED <<uncamera, arMounted, arActive, arStream, arClosure, arPending,
                   mediaCalls, vbStream>>

NextCamera ==
    \/ Activate
    \/ Deactivate
    \/ MediaResolves
    \/ MediaRejects
    \/ UnmountAR
    \/ MountVideo
    \/ VideoResolves
    \/ VideoRejects
    \/ UnmountVideo

SpecCamera == Init /\ [][NextCamera]_vars

(***************************************************************************)
(* server.js: the proxy of the OpenSky API                                 *)
(*                                                                         *)
(* A body is the JSON text sent; the upstream call settles with an answer  *)
(* (status, data) or without one (time-out after 5000 ms, network error).  *)
(***************************************************************************)
\* what https://opensky-network.org/api/states/all may do to a call
UpstreamOutcomes ==
    {[kind |-> "answer", status |-> 200, data |-> d] : d \in {"states", "nullStates"}}
    \cup {[kind |-> "answer", status |-> 429, data |-> "tooManyRequests"],
          [kind |-> "answer", status |-> 503, data |-> "unavailable"]}
    \cup {[kind |-> "silent", status |-> 0, data |-> why] : why \in {"timeout", "network"}}

\* axios.get with the default validateStatus: resolved with the answer when
\* its status is 2xx, rejected otherwise, error.response being the answer
\* if there was one
AxiosGet(outcome) ==
    [resolved |-> outcome.kind = "answer" /\ outcome.status \in 200..299,
     response |-> IF outcome.kind = "answer"
                  THEN [status |-> outcome.status, data |-> outcome.data]
                  ELSE Null]

\* res.status(status).json(body)
Json(status, body) == [status |-> status, body |-> body]

\* { error: 'Failed to fetch data from OpenSky' }
FailedBody == "Failed to fetch data from OpenSky"

\* Faulty variant of the handler: every failure is answered with status 500
HandlerAlways500(outcome) ==
    IF AxiosGet(outcome).resolved
    THEN <<Json(200, AxiosGet(outcome).response.data)>>
    ELSE <<Json(500, FailedBody)>>

\* lines 11-38: the responses the handler sends once axios.get has settled
Handler(outcome) ==
    LET settled == AxiosGet(outcome)
    IN  IF settled.resolved
        THEN <<Json(200, settled.response.data)>>
        ELSE IF settled.response # Null
        THEN <<Json(settled.response.status, settled.response.data)>>
        ELSE <<Json(500, FailedBody)>>

\* what the proxy leaves alone
unproxied == <<planeUtilsRev, realStarsRev, now, observerLat, observerLon, planes,
               planePositions, satellites, satPositions, satsLoaded, stars, last,
               call, calls, sky, polls, camera>>

\* GET /api/opensky/all arrives: the handler runs up to its await
Receive ==
    /\ received < MaxProxyRequests
    /\ received' = received + 1
    /\ UNCHANGED <<upstream, responses, unproxied>>

\* the upstream call of a request settles and the handler goes on
UpstreamSettles(id) ==
    /\ id <= received
    /\ upstream[id] = Pending
    /\ \E outcome \in UpstreamOutcomes :
          /\ upstream' = [upstream EXCEPT ![id] = outcome]
          /\ responses' = [responses EXCEPT ![id] = @ \o Handler(outcome)]
    /\ UNCHANGED <<received, unproxied>>

NextProxy ==
    \/ Receive
    \/ \E id \in 1..MaxProxyRequests : UpstreamSettles(id)

\* the time-out of axios.get lets every upstream call settle
SpecProxy ==
    /\ Init
    /\ [][NextProxy]_vars
    /\ \A id \in 1..MaxProxyRequests : WF_vars(UpstreamSettles(id))

(***************************************************************************)
(* Properties                                                              *)
(***************************************************************************)
\* the ids of a list of markers
Ids(markers) == {markers[i].id : i \in 1..Len(markers)}

\* C1: a frame that finds a category's input list empty leaves that
\* category's rendered markers empty; in particular, once the aircraft list
\* has been replaced by an empty one, the next frame renders no aircraft.
C1_EmptyInputEmptyOutput ==
    /\ (last = "PlanesFrame" /\ Len(planes) = 0) => planePositions = <<>>
    /\ (last = "SatellitesFrame" /\ Len(satellites) = 0) => satPositions = <<>>

\* C2: in a frame over a non-empty aircraft list, a state vector whose
\* latitude or longitude is null has no look angles (getPlanePositionRelative
\* returns null) and no marker, while every other aircraft of the list that
\* is at or above the horizon has its marker.
C2_NullPositionOmitted ==
    (last = "PlanesFrame" /\ Len(planes) > 0) =>
        \A i \in 1..Len(planes) :
            LET plane == planes[i]
            IN  IF plane.lat = NULL \/ plane.lon = NULL
                THEN /\ getPlanePositionRelative(plane, observerLat, observerLon, 0)
                          = Null
                     /\ plane.id \notin Ids(planePositions)
                ELSE LET relativePos ==
                             getPlanePositionRelative(VirtualPlane(plane, now),
                                                      observerLat, observerLon, 0)
                     IN  /\ relativePos # Null
                         /\ ~Lt(relativePos.elevation, 0)
                                => plane.id \in Ids(planePositions)

\* a frame has processed a list holding an aircraft without a position fix
\* and has rendered the others
C2_Witness ==
    /\ last = "PlanesFrame"
    /\ \E i \in 1..Len(planes) : planes[i].lat = NULL
    /\ Len(planePositions) = 2

\* C3: in a frame over a non-empty satellite list, a satellite whose
\* propagation yields no position has no look angles (getSatPositionRelative
\* returns null) and no marker, while every other satellite of the list that
\* is at or above the horizon has its marker.
C3_UnpropagatedSatelliteOmitted ==
    (last = "SatellitesFrame" /\ Len(satellites) > 0) =>
        \A i \in 1..Len(satellites) :
            LET sat == satellites[i]
                relativePos == getSatPositionRelative(sat.satrec, now, observerLat,
                                                      observerLon, 0)
            IN  IF propagate(sat.satrec, now).position = Null
                THEN /\ relativePos = Null
                     /\ sat.name \notin Ids(satPositions)
                ELSE /\ relativePos # Null
                     /\ ~Lt(relativePos.elevation, 0)
                            => sat.name \in Ids(satPositions)

\* a frame has processed a list holding a satellite that no longer
\* propagates and has rendered another one
C3_Witness ==
    /\ last = "SatellitesFrame"
    /\ \E i \in 1..Len(satellites) :
           propagate(satellites[i].satrec, now).position = Null
    /\ Ids(satPositions) = {"ISS"}

\* the height coordinate of a marker is a number and is not below the
\* horizon plane (y = distance * sin(elevation), so y >= 0 iff elevation >= 0)
NotBelowHorizon(marker) == marker.position[2] # NaN /\ marker.position[2] >= 0

\* C4: every rendered star, satellite and aircraft is at an elevation >= 0.
C4_EmittedAboveHorizon ==
    /\ \A i \in 1..Len(stars) : NotBelowHorizon(stars[i])
    /\ \A i \in 1..Len(satPositions) : NotBelowHorizon(satPositions[i])
    /\ \A i \in 1..Len(planePositions) : NotBelowHorizon(planePositions[i])

\* a is a number in [0, 2 * PI)
InFullTurn(a) == a # NaN /\ 0 <= a /\ a < 2 * PI

\* C5: the azimuth celestialToHorizontal returns lies in [0, 2 * PI): it is
\* renormalized, so 2 * PI itself is never returned.
C5_CelestialAzimuthInRange ==
    call.fn = "celestialToHorizontal" => InFullTurn(call.result.azimuth)

\* C6: the azimuth getPlanePositionRelative returns lies in [0, 2 * PI).
C6_PlaneAzimuthInRange ==
    (call.fn = "getPlanePositionRelative" /\ call.result # Null)
        => InFullTurn(call.result.azimuth)

\* C7: the argument of the arcsine is clamped to [-1, 1] in
\* celestialToHorizontal and in getPlanePositionRelative, so neither ever
\* returns NaN as the elevation.
C7_ElevationNeverNaN ==
    /\ call.fn = "celestialToHorizontal" => call.result.elevation # NaN
    /\ (call.fn = "getPlanePositionRelative" /\ call.result # Null)
           => call.result.elevation # NaN

\* C8: every frame re-derives the look angles of all three categories from
\* the current instant: after a frame the star markers are those of the
\* clock's present reading, as are the markers of the (non-empty) list the
\* frame has processed.
C8_AllCategoriesRederived ==
    /\ last \in {"PlanesFrame", "SatellitesFrame"}
           => stars = RealStars(observerLat, observerLon, now)
    /\ (last = "PlanesFrame" /\ Len(planes) > 0)
           => planePositions = PlaneMarkers(planes, observerLat, observerLon, now)
    /\ (last = "SatellitesFrame" /\ Len(satellites) > 0)
           => satPositions = SatMarkers(satellites, observerLat, observerLon, now)

\* C9: the elapsed time of an aircraft is max(0, now - timestamp) and never
\* negative; when the clock is not past the timestamp the extrapolated
\* latitude, longitude and altitude are the reported ones, and so the marker
\* a frame renders is the marker of the reported position.
C9_ElapsedNeverNegative ==
    \A i \in 1..Len(planes) :
        LET plane == planes[i]
        IN  /\ ElapsedSeconds(plane, now) >= 0
            /\ Truthy(plane.timePos)
                   => ElapsedSeconds(plane, now) = Max(0, now - plane.timePos)
            /\ (Truthy(plane.timePos) /\ now <= plane.timePos
                    /\ plane.lat # NULL /\ plane.lon # NULL)
                   => /\ VirtualPlane(plane, now).lat = plane.lat
                      /\ VirtualPlane(plane, now).lon = plane.lon
                      /\ VirtualPlane(plane, now).alt = Num(plane.alt)
                      /\ last = "PlanesFrame" =>
                            \A j \in 1..Len(planePositions) :
                                planePositions[j].id = plane.id =>
                                    planePositions[j] =
                                        PlaneEntry([plane EXCEPT !.timePos = NULL],
                                                   observerLat, observerLon, now)

\* a frame has rendered an aircraft whose timestamp is ahead of the clock,
\* next to one whose timestamp is an hour old
C9_Witness ==
    /\ last = "PlanesFrame"
    /\ \E i \in 1..Len(planes) :
           /\ Truthy(planes[i].timePos) /\ now < planes[i].timePos
           /\ planes[i].id \in Ids(planePositions)
    /\ \E i \in 1..Len(planes) :
           Truthy(planes[i].timePos) /\ now > planes[i].timePos

\* the call's aircraft is at the observer's latitude, longitude and altitude
Coincident ==
    /\ call.fn = "getPlanePositionRelative"
    /\ call.args.planeState.lat = call.args.observerLat
    /\ call.args.planeState.lon = call.args.observerLon
    /\ call.args.planeState.alt = call.args.observerAlt

\* C10 as stated: an aircraft coincident with the observer is at elevation
\* PI / 2 and range 0.
C10_CoincidentAtZenith ==
    Coincident => call.result.elevation = PI \div 2 /\ call.result.range = 0

\* C10, amended: an aircraft coincident with the observer is at elevation 0
\* and range 0.
C10_CoincidentAtHorizon ==
    Coincident => call.result.elevation = 0 /\ call.result.range = 0

\* getPlanePositionRelative has been called for an aircraft at the observer's
\* own position and has returned look angles
C10_Witness == Coincident /\ call.result # Null /\ call.result.range = 0

\* the object of the call is in the shadow cylinder, in exact integer
\* arithmetic: (P.S)/|S| < 0 and |P|^2 - ((P.S)/|S|)^2 < Re^2, both sides of
\* the second comparison multiplied by |S|^2
InShadowCylinder(P, S) ==
    /\ Dot(S, S) > 0
    /\ Dot(P, S) < 0
    /\ Dot(P, P) * Dot(S, S) - Dot(P, S) * Dot(P, S) < Re * Re * Dot(S, S)

\* P is k * S for a k >= 0
OnSunSide(P, S) == \E k \in GridFactors : k >= 0 /\ P = Scaled(S, k)

\* C11: isSunlit(P, S) is false exactly when the projection of P on the Sun
\* direction is negative and the squared distance of P from the axis is less
\* than 6371^2; an object at a non-negative multiple of S is lit.
C11_SunlitUnlessInShadowCylinder ==
    call.fn = "isSunlit" =>
        /\ call.result = ~InShadowCylinder(call.args.satPos, call.args.sunPos)
        /\ OnSunSide(call.args.satPos, call.args.sunPos) => call.result = TRUE

\* isSunlit has been called for an object behind the Earth on an oblique
\* Sun axis, inside the cylinder, and has answered false
C11_Witness ==
    /\ call.fn = "isSunlit"
    /\ call.args.sunPos = Vec(-2, 2, 1)
    /\ InShadowCylinder(call.args.satPos, call.args.sunPos)
    /\ call.result = FALSE

\* the look angles celestialToCartesian projects, for the arguments a
HorizontalOf(a) ==
    celestialToHorizontal(a.ra, a.dec, a.lat,
                          getLocalSiderealTime(MilliDegrees(a.lon), a.date))

\* the record p and the triple t are the same point
SamePoint(p, t) == p.x = t[1] /\ p.y = t[2] /\ p.z = t[3]

\* the projection of the look angles h on the sphere of the given radius
ProjectionOf(h, radius) == polarToCartesian(h.azimuth, h.elevation, radius)

\* C12: polarToCartesian(az, el, r) is (r cos(el) sin(az), r sin(el),
\* -r cos(el) cos(az)): North (az = 0) is on -Z, East (az = PI/2) on +X, the
\* zenith on +Y; celestialToCartesian is the same mapping of the look angles
\* celestialToHorizontal returns.
C12_ProjectionAxes ==
    /\ call.fn = "polarToCartesian" =>
          LET a == call.args
              r == ToFixed(a.distance)
          IN  /\ call.result[1] = Mul(Mul(r, Cos(a.elevation)), Sin(a.azimuth))
              /\ call.result[2] = Mul(r, Sin(a.elevation))
              /\ call.result[3] = -Mul(Mul(r, Cos(a.elevation)), Cos(a.azimuth))
              /\ (a.azimuth = 0 /\ a.elevation = 0) => call.result = <<0, 0, -r>>
              /\ (a.azimuth = PI \div 2 /\ a.elevation = 0)
                     => call.result = <<r, 0, 0>>
              /\ a.elevation = PI \div 2 => call.result = <<0, r, 0>>
    /\ call.fn = "celestialToCartesian" =>
          SamePoint(call.result, ProjectionOf(HorizontalOf(call.args),
                                              call.args.radius))

\* polarToCartesian has been called for the East point of the horizon
C12_Witness ==
    /\ call.fn = "polarToCartesian"
    /\ call.args.azimuth = PI \div 2 /\ call.args.elevation = 0
    /\ call.result[1] = ToFixed(call.args.distance)

\* C13: for every instant and every longitude in [-180, 180] degrees,
\* getLocalSiderealTime returns a value in [0, 24) hours.
C13_SiderealTimeInDay ==
    call.fn = "getLocalSiderealTime" => 0 <= call.result /\ call.result < Day

\* the extrapolated record is that of an aircraft flying due North (heading
\* 0) at a speed > 0 for a time > 0
NorthboundMoving ==
    /\ call.fn = "virtualPlane"
    /\ call.args.plane.heading = 0
    /\ call.args.plane.velocity > 0
    /\ Truthy(call.args.plane.timePos)
    /\ call.args.now - call.args.plane.timePos > 0

\* C14: an aircraft with heading 0, speed > 0 and elapsed time > 0 is
\* extrapolated to a strictly greater latitude and to the same longitude.
C14_NorthboundGainsLatitude ==
    NorthboundMoving =>
        /\ call.result.lat > call.args.plane.lat
        /\ call.result.lon = call.args.plane.lon

\* a northbound aircraft at 250 m/s has been extrapolated over an hour
C14_Witness ==
    /\ NorthboundMoving
    /\ call.args.plane.velocity = 250
    /\ call.result.lat = call.args.plane.lat + 8

AtCelestialPole == call.fn = "celestialToHorizontal" /\ call.args.dec = 90

\* C16: for an object at declination 90 degrees the elevation
\* celestialToHorizontal returns is the observer's latitude, whatever the
\* right ascension and the local sidereal time.
C16_PoleElevationIsLatitude ==
    AtCelestialPole => call.result.elevation = DegToRad(call.args.lat)

\* the pole seen from latitude 41, six sidereal hours from the meridian of
\* right ascension 0
C16_Witness ==
    /\ AtCelestialPole
    /\ call.args.lat = 41 /\ call.args.ra = 0 /\ call.args.lst = 6000
    /\ call.result.elevation = 82

\* getPlanePositionRelative has returned the look angles of a target at a
\* surface distance > 0
AtDistance ==
    /\ call.fn = "getPlanePositionRelative"
    /\ call.result # Null
    /\ call.result.range > 0

\* atan2(targetAltitude - observerAltitude, d): the flat triangle
FlatTriangle(a, d) == Atan2(Km(a.planeState.alt) - Km(a.observerAlt), d)

\* asin(clamp((R_t cos(theta) - R_o) / s, -1, 1)), theta = d / R, s the slant
\* range by the law of cosines
RequiredElevation(a, d) ==
    CurvedElevation(R + Km(a.observerAlt), R + Km(a.planeState.alt), ArcAngle(d, R),
                    SlantRange(R + Km(a.observerAlt), R + Km(a.planeState.alt),
                               ArcAngle(d, R)))

\* C17: for every target at surface distance d > 0 the elevation returned by
\* getPlanePositionRelative is strictly below the flat triangle's
\* atan2(targetAltitude - observerAltitude, d) and is the value of
\* asin(clamp((R_t cos(theta) - R_o) / s, -1, 1))
C17_ElevationByEarthCentreTriangle ==
    AtDistance =>
        /\ Lt(call.result.elevation, FlatTriangle(call.args, call.result.range))
        /\ call.result.elevation = RequiredElevation(call.args, call.result.range)

\* the stored lists are the snapshots as the feeds reported them
ReportedSnapshots(planeList, satList) ==
    /\ planeList \in PlaneFeeds
    /\ satList \in {Slice(data, MaxSatellites) : data \in SatFeeds}

\* C18: a render tick modifies neither the stored aircraft list nor the
\* stored satellite list nor a record in them; the markers of a tick are
\* derived from the records as reported, so that the displacement is measured
\* from the reported position and does not accumulate from tick to tick.
C18_FramesKeepSnapshots ==
    [][last' \in {"PlanesFrame", "SatellitesFrame"} =>
          /\ planes' = planes
          /\ satellites' = satellites
          /\ ReportedSnapshots(planes', satellites')
          /\ last' = "PlanesFrame" /\ Len(planes) > 0 =>
                 planePositions' = PlaneMarkers(planes, observerLat, observerLon, now)]_vars

\* a second hour after the report a tick has extrapolated an aircraft sixteen
\* degrees of latitude along its heading, and the stored record still has the
\* reported position
C18_Witness ==
    /\ last = "PlanesFrame"
    /\ now = T0 + 2 * TickSeconds
    /\ planes = <<PlaneNorth>>
    /\ VirtualPlane(planes[1], now).lat = PlaneNorth.lat - 16

\* the build has a revision of planeUtils.js with the Earth-centre triangle
CurvatureCorrected == planeUtilsRev \in {"raw", "curved"}

\* the slant range between the observer and the target of the call a
SlantRangeOf(a, d) ==
    SlantRange(R + Km(a.observerAlt), R + Km(a.planeState.alt), ArcAngle(d, R))

\* (R_t cos(theta) - R_o) / s clamped to [-1, 1], for s > 0
ClampedRatio(r_o, r_t, theta, s) ==
    Max(-SCALE, Min(SCALE, RoundDiv((Mul(r_t, Cos(theta)) - r_o) * SCALE, s)))

\* the elevation C19 prescribes for the slant range s
GuardedElevation(a, d, s) ==
    IF s = 0 THEN 0
    ELSE Asin(ClampedRatio(R + Km(a.observerAlt), R + Km(a.planeState.alt),
                           ArcAngle(d, R), s))

\* C19: in the curvature-corrected getPlanePositionRelative the elevation is 0
\* when the slant range s is exactly 0 (no quotient by s is formed: the
\* result is a number, not NaN), and asin of the clamped ratio when s > 0.
C19_ZeroSlantRangeGuarded ==
    (CurvatureCorrected /\ call.fn = "getPlanePositionRelative"
                        /\ call.result # Null) =>
        /\ call.result.elevation # NaN
        /\ call.result.elevation =
               GuardedElevation(call.args, call.result.range,
                                SlantRangeOf(call.args, call.result.range))

\* the curvature-corrected getPlanePositionRelative has been called for a
\* target at slant range 0, ten kilometres up, and has returned elevation 0
C19_Witness ==
    /\ CurvatureCorrected
    /\ call.fn = "getPlanePositionRelative"
    /\ call.result # Null
    /\ call.args.observerAlt = 10000
    /\ SlantRangeOf(call.args, call.result.range) = 0
    /\ call.result.elevation = 0

\* a thousandth of the radius of the nearest sphere: the rounding of the
\* sines of a composed rotation stays below it, an offset applied once too
\* often or not at all is hundreds of times above it
Tolerance == SCALE \div 10

\* the points p and q coincide within the tolerance
Near(p, q) == \A k \in 1..3 : Abs(p[k] - q[k]) <= Tolerance

\* where a marker at the point position of the sky group is rendered
Rendered(position) == RotateY(position, rotationY)

\* the projection of (azimuth + offset, elevation) of the look angles h
Corrected(h, distance) ==
    polarToCartesian(h.azimuth + DegToRad(azimuthOffset), h.elevation, distance)

\* the look angles of a star at the instant the memo of RealStars ran
StarLookAngles(star) ==
    celestialToHorizontal(star.ra, star.dec, observerLat,
                          getLocalSiderealTime(MilliDegrees(observerLon), T0))

\* the aircraft the feeds report
ReportedPlanes == UNION {{feed[j] : j \in 1..Len(feed)} : feed \in PlaneFeeds}

\* C20: in a rendered frame every emitted satellite, aircraft and star is
\* seen in the direction of the projection of (azimuth + offset, elevation):
\* the compass offset is applied exactly once to each object, be it inside
\* the projection or by the rotation -offset of the sky group about Y.
C20_OffsetAppliedOnce ==
    last = "SkyFrame" =>
        /\ \A i \in 1..Len(satPositions) :
               Near(Rendered(satPositions[i].position),
                    Corrected(getSatPositionRelative(satPositions[i].info.satrec, now,
                                                     observerLat, observerLon, 0),
                              150))
        /\ \A i \in 1..Len(planePositions) :
               \E plane \in ReportedPlanes :
                   /\ plane.id = planePositions[i].id
                   /\ Near(Rendered(planePositions[i].position),
                           Corrected(getPlanePositionRelative(plane, observerLat,
                                                              observerLon, 0),
                                     80))
        /\ \A i \in 1..Len(stars) :
               Near(Rendered(stars[i].position),
                    Corrected(StarLookAngles(stars[i]), 200))

\* a frame has been rendered with the compass offset at 30 degrees and a
\* satellite, an aircraft and a star in the sky
C20_Witness ==
    /\ last = "SkyFrame"
    /\ azimuthOffset = 30
    /\ rotationY = DegToRad(-30)
    /\ Len(satPositions) > 0
    /\ Len(planePositions) > 0
    /\ Len(stars) > 0

\* the look angles of the satellite sat for the observer at the instant of
\* the frame
SatLookAngles(sat) ==
    getSatPositionRelative(sat.satrec, now, observerLat, observerLon, 0)

\* sat was propagated and is not below the horizon
UpAndPropagated(sat) ==
    /\ SatLookAngles(sat) # Null
    /\ SatLookAngles(sat).elevation # NaN
    /\ SatLookAngles(sat).elevation >= 0

\* sat is lit by the Sun of the instant of the frame
LitNow(sat) ==
    /\ getSatellitePosition(sat.satrec, now) # Null
    /\ isSunlit(getSatellitePosition(sat.satrec, now), getSunPositionECI(now))

\* the satellites of the stored list
Stored == {satellites[i] : i \in 1..Len(satellites)}

\* C21: with the sunlit filter on, every satellite emitted in a frame is above
\* the horizon, was propagated and is sunlit for the Sun position of the
\* instant of that frame; with the filter off a satellite is emitted whether
\* it is lit or not (exactly those above the horizon are emitted).
C21_SunlitFilter ==
    (last = "SkyFrame" /\ Len(satellites) > 0) =>
        /\ filterVisible =>
               {m.info : m \in {satPositions[i] : i \in 1..Len(satPositions)}}
                   = {sat \in Stored : UpAndPropagated(sat) /\ LitNow(sat)}
        /\ ~filterVisible =>
               {m.info : m \in {satPositions[i] : i \in 1..Len(satPositions)}}
                   = {sat \in Stored : UpAndPropagated(sat)}

\* a frame with the filter on has dropped a satellite that is above the
\* horizon in the Earth's shadow and has emitted the sunlit one
C21_Witness ==
    /\ last = "SkyFrame"
    /\ filterVisible
    /\ satellites = <<SatOverhead, SatEclipsed>>
    /\ UpAndPropagated(SatEclipsed) /\ ~LitNow(SatEclipsed)
    /\ Len(satPositions) = 1
    /\ satPositions[1].info = SatOverhead

\* fetchPlanes has been called and the request failed
FetchFailed == call.fn = "fetchPlanes" /\ call.args.outcome.kind = "error"

\* fetchPlanes has been called and the answer has no list of states
FetchWithoutStates ==
    /\ call.fn = "fetchPlanes"
    /\ call.args.outcome.kind = "response"
    /\ call.args.outcome.body \in {"nullStates", "noStates"}

\* C22: fetchPlanes never rejects; when the request fails (network error,
\* timeout, error answer of the proxy) it resolves to the empty list, and so
\* it does when the answer's states field is null or missing.
C22_FetchPlanesResolvesEmpty ==
    /\ call.fn = "fetchPlanes" => call.result.settled = "resolved"
    /\ FetchFailed => call.result.value = <<>>
    /\ FetchWithoutStates => call.result.value = <<>>

\* the observer position of the state
ObserverNow == [lat |-> observerLat, lon |-> observerLon]

\* C23: a response stored by Planes belongs to a request issued for the
\* bounding box of the current observer; the response to a request issued
\* for an earlier position, settling after the position changed, is not
\* stored.
C23_StaleResponseNotStored ==
    [][last' = "PollResolves" =>
          \/ planesFor' = ObserverNow'
          \/ planes' = planes /\ planesFor' = planesFor]_vars

\* a firing of loadPlanes in a closure holding the observer position
\* (lat, lon) has issued one request, for the box of that position +- 2
IssuedOne(lat, lon) ==
    /\ issued' = issued + 1
    /\ \E r \in inflight' \ inflight :
        /\ inflight' = inflight \cup {r}
        /\ r.minLat = lat - 2 /\ r.maxLat = lat + 2
        /\ r.minLon = lon - 2 /\ r.maxLon = lon + 2

\* a firing of loadPlanes has issued nothing
IssuedNone == issued' = issued /\ inflight' = inflight

\* what C25 requires of a firing of loadPlanes for the position (lat, lon)
FiredFor(lat, lon) ==
    IF lat # 0 /\ lon # 0 /\ lat # NULL /\ lon # NULL /\ lat # NaN /\ lon # NaN
    THEN IssuedOne(lat, lon)
    ELSE IssuedNone

\* C25: loadPlanes issues a request exactly when observerLat and observerLon
\* are both truthy.  A firing (the run of the effect or a firing of the
\* interval) for an observer at latitude 0 or longitude 0 issues nothing and
\* leaves the aircraft list as it was; for any other observer it issues one
\* request, for the box observer +- 2 degrees.
C25_RequestIffObserverTruthy ==
    [][/\ last' = "MoveObserver" =>
             FiredFor(observerLat', observerLon') /\ planes' = planes
       /\ last' = "IntervalFires" =>
             /\ \E t \in timers : FiredFor(t.lat, t.lon)
             /\ planes' = planes]_vars

\* the observer has moved to latitude 0 and the interval has fired there:
\* the only request ever issued is the one of the mount
C25_Witness ==
    /\ last = "IntervalFires"
    /\ observerLat = 0
    /\ \A t \in timers : t.lat = 0
    /\ effectRuns = 2
    /\ issued = 1

\* C26: at most one polling timer of Planes is active at any moment: when the
\* observer's latitude or longitude changes the previous timer is cleared
\* before the new one is created, and after the unmount none is active.
C26_OnePollingTimer ==
    /\ Cardinality(timers) <= 1
    /\ \A t \in timers : t.id = effectRuns /\ t.lat = observerLat /\ t.lon = observerLon
    /\ ~planesMounted => timers = {}

\* the observer has moved twice and Planes has unmounted: three timers were
\* created and none is left
C26_Witness ==
    /\ effectRuns = 3
    /\ ~planesMounted
    /\ timers = {}

\* the streams of a component whose tracks run
RunningOf(owner) == {r \in running : r.owner = owner}

\* C24: every camera stream acquired is stopped in the end: once AROverlay is
\* inactive or unmounted, or VideoBackground is unmounted, and none of its
\* calls of getUserMedia is pending, none of its streams has running tracks.
C24_StreamsStopped ==
    /\ ((~arActive \/ ~arMounted) /\ arPending = {}) => RunningOf("AROverlay") = {}
    /\ (~vbMounted /\ vbPending = {}) => RunningOf("VideoBackground") = {}

\* getPlanePositionRelative has returned look angles
Located == call.fn = "getPlanePositionRelative" /\ call.result # Null

\* the target of the call is on the observer's meridian
OnMeridian == call.args.planeState.lon = call.args.observerLon

\* C27: the range getPlanePositionRelative returns is the great-circle
\* surface distance between observer and target in kilometres, whatever the
\* two altitudes: it is the haversine distance of the two positions, on the
\* observer's meridian the arc R * |difference of latitude|, and 0 for a
\* target at the observer's latitude and longitude at every altitude; the
\* slant range is not returned.
C27_RangeIsSurfaceDistance ==
    Located =>
        /\ call.result.range =
               SurfaceDist(call.args.planeState.lat, call.args.planeState.lon,
                           call.args.observerLat, call.args.observerLon)
        /\ OnMeridian =>
               call.result.range =
                   ArcLength(R, DegToRad(Abs(call.args.planeState.lat
                                             - call.args.observerLat)))
        /\ (OnMeridian /\ call.args.planeState.lat = call.args.observerLat) =>
               call.result.range = 0

\* the curved revision has been called for a target ten kilometres above the
\* observer: the slant range is 10 km and the range returned is 0
C27_Witness ==
    /\ Located
    /\ planeUtilsRev = "curved"
    /\ OnMeridian /\ call.args.planeState.lat = call.args.observerLat
    /\ call.args.planeState.alt = 10000 /\ call.args.observerAlt = 0
    /\ SlantRangeOf(call.args, call.result.range) = 10
    /\ call.result.range = 0

\* the call extrapolated a state vector whose time stamp is null or 0
Undated ==
    /\ call.fn = "virtualPlane"
    /\ call.args.plane.timePos \in {NULL, 0}

\* the position is made of numbers
Numeric(plane) ==
    /\ plane.lat \notin {NaN, NULL}
    /\ plane.lon \notin {NaN, NULL}
    /\ plane.alt \notin {NaN, NULL}

\* C28: a state vector whose time stamp is null or 0 is extrapolated over 0
\* seconds and stays at its reported latitude, longitude and altitude; a null
\* speed, heading, vertical rate or altitude counts as 0, and the extrapolated
\* position is made of numbers, so are the look angles computed from it.
C28_MissingFieldsCountAsZero ==
    call.fn = "virtualPlane" =>
        LET plane == call.args.plane
            moved == call.result
            reportedAlt == IF plane.alt = NULL THEN 0 ELSE plane.alt
            seconds == IF plane.timePos \in {NULL, 0} \/ call.args.now < plane.timePos
                       THEN 0 ELSE call.args.now - plane.timePos
            angles == getPlanePositionRelative(moved, 41, -74, 0)
        IN  /\ Numeric(moved)
            /\ angles # Null
            /\ angles.azimuth # NaN /\ angles.elevation # NaN /\ angles.range # NaN
            /\ Undated =>
                   moved.lat = plane.lat /\ moved.lon = plane.lon /\ moved.alt = reportedAlt
            /\ plane.velocity = NULL =>
                   moved.lat = plane.lat /\ moved.lon = plane.lon
            /\ plane.heading = NULL => moved.lon = plane.lon /\ moved.lat >= plane.lat
            /\ plane.verticalRate = NULL /\ plane.alt = NULL => moved.alt = 0
            /\ plane.alt # NULL => moved.alt = plane.alt + plane.verticalRate * seconds

C28_Witness ==
    /\ Undated
    /\ call.args.plane.timePos = NULL
    /\ call.args.plane.velocity = 250
    /\ call.args.plane.heading = NULL
    /\ call.args.plane.alt = NULL
    /\ call.args.now = J2000 + TickSeconds
    /\ call.result.lat = call.args.plane.lat
    /\ call.result.alt = 0

\* the response the caller of the proxy is to get for an upstream outcome
Expected(outcome) ==
    CASE outcome.kind = "answer" /\ outcome.status = 200 ->
             [status |-> 200, body |-> outcome.data]
      [] outcome.kind = "answer" /\ outcome.status # 200 ->
             [status |-> outcome.status, body |-> outcome.data]
      [] outcome.kind = "silent" ->
             [status |-> 500, body |-> "Failed to fetch data from OpenSky"]

\* no response before the upstream call has settled, one afterwards
AnsweredOnce(id) ==
    IF id > received \/ upstream[id] = Pending
    THEN responses[id] = <<>>
    ELSE responses[id] = <<Expected(upstream[id])>>

\* C29: every request of the proxy gets exactly one response: none while the
\* upstream call is pending, then the upstream body with status 200 on
\* success, the upstream status and body when the upstream answered with an
\* error status, status 500 with the error object when there was no answer;
\* and every request received is eventually answered.
C29_ExactlyOneResponse ==
    /\ [](\A id \in 1..MaxProxyRequests : AnsweredOnce(id))
    /\ \A id \in 1..MaxProxyRequests :
           (received >= id) ~> (Len(responses[id]) = 1)

C29_Witness ==
    /\ received = 3
    /\ upstream[1].kind = "silent" /\ upstream[1].data = "timeout"
    /\ responses[1] = <<[status |-> 500, body |-> FailedBody]>>
    /\ responses[2] = <<[status |-> 429, body |-> "tooManyRequests"]>>
    /\ responses[3] = <<[status |-> 200, body |-> "states"]>>

\* the lines of the text the call of fetchTLEs received
FeedLines == Split(call.args.outcome.data)

\* the groups of three lines at the offsets 0, 3, 6, ... (numbered from 0)
Groups == 0..((Len(FeedLines) - 1) \div 3)

\* the line of a group, <<>> beyond the end
GroupLine(k, j) ==
    IF 3 * k + j <= Len(FeedLines) THEN FeedLines[3 * k + j] ELSE <<>>

NonEmpty(k) == \A j \in 1..3 : GroupLine(k, j) # <<>>

\* the element of a set of numbers with j - 1 smaller ones
Nth(S, j) == CHOOSE k \in S : Cardinality({m \in S : m < k}) = j - 1

\* the result holds the trimmed lines of exactly the groups of S, in order
ReturnsGroups(S) ==
    /\ Len(call.result) = Cardinality(S)
    /\ \A j \in 1..Len(call.result) :
          LET k == Nth(S, j)
          IN  /\ call.result[j].name = Trim(GroupLine(k, 1))
              /\ call.result[j].line1 = Trim(GroupLine(k, 2))
              /\ call.result[j].line2 = Trim(GroupLine(k, 3))

Fetched == call.fn = "fetchTLEs" /\ call.args.outcome.body = "text"

\* C30 as stated: fetchTLEs returns, in order, exactly the groups of three
\* non-empty lines whose second line starts with "1 " and whose third line
\* starts with "2 "; and [] when the request fails.
C30_GroupsByRawPrefix ==
    call.fn = "fetchTLEs" =>
        IF Fetched
        THEN ReturnsGroups({k \in Groups :
                 /\ NonEmpty(k)
                 /\ StartsWith(GroupLine(k, 2), <<"1", " ">>)
                 /\ StartsWith(GroupLine(k, 3), <<"2", " ">>)})
        ELSE call.result = <<>>

\* C30, amended: fetchTLEs returns, in order, exactly the groups of three
\* non-empty lines whose second line, trimmed, starts with "1 " and whose
\* third line, trimmed, starts with "2 "; every record holds the trimmed
\* lines, so its line1 begins "1 " and its line2 "2 "; and the result is []
\* when the request fails.
C30_GroupsByTrimmedPrefix ==
    call.fn = "fetchTLEs" =>
        /\ IF Fetched
           THEN ReturnsGroups({k \in Groups :
                    /\ NonEmpty(k)
                    /\ StartsWith(Trim(GroupLine(k, 2)), <<"1", " ">>)
                    /\ StartsWith(Trim(GroupLine(k, 3)), <<"2", " ">>)})
           ELSE call.result = <<>>
        /\ \A j \in 1..Len(call.result) :
              /\ SubSeq(call.result[j].line1, 1, 2) = <<"1", " ">>
              /\ SubSeq(call.result[j].line2, 1, 2) = <<"2", " ">>

C30_Witness ==
    /\ Fetched
    /\ Len(FeedLines) = 6
    /\ FeedLines[2] = <<" ", "1", " ", "5">>
    /\ Len(call.result) = 2
    /\ call.result[1].line1 = <<"1", " ", "5">>
    /\ call.result[2].name = <<"M">>

==============================================================================
